---- MODULE Spec2Model ----
(***************************************************************************)
(* Model of indepth_analysis: the signal aggregator                       *)
(* (analysis/aggregator.py), the document chunker (processing/chunker.py), *)
(* the search index (search/indexer.py) over the chunk store (db.py), the  *)
(* processing pipeline (processing/__init__.py), the report store (db.py), *)
(* run_analysis (cli.py), the signal model (models/common.py), the         *)
(* analyzers (analysis/*.py), the KCIF research agent                      *)
(* (skills/euro_macro/agents/kcif_agent.py), the update command (cli.py)   *)
(* and the process command with the chunks table (cli.py,                  *)
(* processing/__init__.py).  Each                                          *)
(* part has its own specification over the one set of variables.           *)
(*                                                                         *)
(* Numbers.  The code computes in binary floating point; the model         *)
(* computes the same formulas in exact rational arithmetic:                *)
(*   - a signal numeric, a confidence and a base weight are integers in    *)
(*     hundredths (0.67 is 67, 0.30 is 30);                                *)
(*   - an effective weight and the unrounded weighted sums are fractions   *)
(*     [num, den] with den > 0;                                            *)
(*   - overall_score and overall_confidence, which the code rounds to 4    *)
(*     decimals, are integers in ten-thousandths (0.134 is 1340).          *)
(* Text is a sequence of one-character strings.                            *)
(***************************************************************************)
EXTENDS Integers, Sequences, FiniteSets, TLC

VARIABLES
    base_weights,        \* InvestmentAggregator.base_weights
    signals,             \* report.<dimension>_signal, by dimension key
    dimension_results,   \* report.dimension_results
    overall_signal,      \* report.overall_signal
    overall_confidence,  \* report.overall_confidence (ten-thousandths)
    overall_score,       \* report.overall_score (ten-thousandths)
    summary,             \* report.summary, as its list of clauses
    weighted_score,      \* aggregate's local weighted_score of the last call
    aggregated,          \* TRUE once aggregate has been called on the report
    agg_signals,         \* the signals the last aggregate call read
    nsets,               \* number of signal assignments made so far
    doc,                 \* the text of each page of the PDF file, as get_text returns it
    budget,              \* chunk_min_tokens, chunk_target_tokens, chunk_max_tokens
    pages,               \* process_reports' pages
    full_text,           \* process_reports' full_text
    chunks,              \* the list chunk_text returned
    pc,                  \* the stage of the pipeline: "file", "extracted", "chunked"
    npieces,             \* number of pieces of text the file was made of
    db_chunks,           \* the rows of the chunks table
    idx_chunks,          \* SearchIndex.chunks
    idx_report_ids,      \* SearchIndex.report_ids
    idx_embeddings,      \* SearchIndex.embeddings
    search_call,         \* the arguments of the last search of the index as it is
    search_results,      \* the list that search returned
    built,               \* TRUE when build has returned and the store is as build read it
    ninserts,            \* number of insert_chunks calls made so far
    rep_processing,      \* reports.processing_status, by report id
    rep_download,        \* reports.download_status, by report id
    cost_limit,          \* config.cost_limit_usd of the process command
    batch,               \* the reports list handed to process_reports
    batch_pos,           \* the position in batch of the next report
    total_cost,          \* process_reports' total_cost
    run,                 \* "idle", "running", "done", "halted" (break) or "raised"
    faulted,             \* the reports of this run that had a stage fail
    reports,             \* the rows of the reports table
    upsert_call,         \* the last upsert_report call, if nothing was written since
    upsert_before,       \* the rows of the reports table when it was made
    upsert_id,           \* the id of the Report it returned
    fetched,             \* run_analysis: whether each fetch returned data
    run_pc,              \* run_analysis: "start", "analyzed" or "aggregated"
    swc,                 \* a SignalWithConfidence object, or None
    swc_error,           \* TRUE when its construction raised ValidationError
    fs_last,             \* the last Signal.from_score call and its result
    an_call,             \* the last analyzer call: analyzer, empty dataset, rule outcomes
    an_result,           \* the SignalWithConfidence it returned, or None before a call
    kc_published,        \* reports.published_date by report id, in days from the target date
    kc_result,           \* the AgentResult of KCIFAgent._search, once it has run
    up_run,              \* the last run of the update command: what it scraped, the
                         \* reports table before it and the count it printed
    embedder,            \* embedder.model_name of the running process command
    last_pass            \* the last pass of the loop of process_reports: the report,
                         \* its status before, the statuses written and its chunks
                         \* as stored before the embedding step

aggVars == <<base_weights, signals, dimension_results, overall_signal,
             overall_confidence, overall_score, summary, weighted_score,
             aggregated, agg_signals, nsets>>

chunkVars == <<doc, budget, pages, full_text, chunks, pc, npieces>>

indexVars == <<db_chunks, idx_chunks, idx_report_ids, idx_embeddings,
               search_call, search_results, built, ninserts>>

pipeVars == <<rep_processing, rep_download, cost_limit, batch, batch_pos,
              total_cost, run, faulted>>

dbVars == <<reports, upsert_call, upsert_before, upsert_id>>

runVars == <<fetched, run_pc>>

commonVars == <<swc, swc_error, fs_last>>

analyzerVars == <<an_call, an_result>>

kcifVars == <<kc_published, kc_result>>

procVars == <<embedder, last_pass>>

extraVars == <<analyzerVars, kcifVars, up_run, procVars>>

vars == <<aggVars, chunkVars, indexVars, pipeVars, dbVars, runVars, commonVars,
          extraVars>>

-----------------------------------------------------------------------------
(* Bounds *)

\* a PDF file is made of at most this many pieces of text
MaxPieces == 4

\* a PDF file has at most this many pages
MaxPages == 3

\* at most this many signal assignments are made to one report
MaxSets == 2

\* at most this many insert_chunks calls are made on the store
MaxInserts == 2

\* search is called with top_k from 0 to this
MaxTopK == 2

\* the catalog holds this many reports
MaxReports == 2

\* a confidence is supplied from this far below 0 to this far above 1, in hundredths
MaxExcess == 5

\* from_score is given the scores from -MaxScore to MaxScore, in hundredths
MaxScore == 110

-----------------------------------------------------------------------------
(* models/common.py *)

\* a report field that holds no SignalWithConfidence
None == [signal |-> "None"]

Signal == {"STRONG BUY", "BUY", "LEAN BUY", "NEUTRAL", "LEAN SELL", "SELL", "STRONG SELL"}

\* mutant of numeric: BUY and SELL are taken as two thirds, 0.66
numeric_thirds(s) ==
    CASE s = "STRONG BUY"  -> 100
      [] s = "BUY"         -> 66
      [] s = "LEAN BUY"    -> 33
      [] s = "NEUTRAL"     -> 0
      [] s = "LEAN SELL"   -> -33
      [] s = "SELL"        -> -66
      [] s = "STRONG SELL" -> -100

\* Signal.numeric, in hundredths
numeric(s) ==
    CASE s = "STRONG BUY"  -> 100
      [] s = "BUY"         -> 67
      [] s = "LEAN BUY"    -> 33
      [] s = "NEUTRAL"     -> 0
      [] s = "LEAN SELL"   -> -33
      [] s = "SELL"        -> -67
      [] s = "STRONG SELL" -> -100

\* a fraction num/den, den > 0
Frac(n, d) == [num |-> n, den |-> d]

\* score >= cutoff, for a score in hundredths given as a fraction
AtLeast(score, cutoff) == score.num >= cutoff * score.den

\* mutant of from_score: the STRONG BUY cutoff is exclusive
from_score_strict(score) ==
    IF score.num > 80 * score.den THEN "STRONG BUY"
    ELSE IF AtLeast(score, 50) THEN "BUY"
    ELSE IF AtLeast(score, 20) THEN "LEAN BUY"
    ELSE IF AtLeast(score, -20) THEN "NEUTRAL"
    ELSE IF AtLeast(score, -50) THEN "LEAN SELL"
    ELSE IF AtLeast(score, -80) THEN "SELL"
    ELSE "STRONG SELL"

\* Signal.from_score, for a score in hundredths given as a fraction
from_score(score) ==
    IF AtLeast(score, 80) THEN "STRONG BUY"
    ELSE IF AtLeast(score, 50) THEN "BUY"
    ELSE IF AtLeast(score, 20) THEN "LEAN BUY"
    ELSE IF AtLeast(score, -20) THEN "NEUTRAL"
    ELSE IF AtLeast(score, -50) THEN "LEAN SELL"
    ELSE IF AtLeast(score, -80) THEN "SELL"
    ELSE "STRONG SELL"

\* SignalWithConfidence(signal, confidence, rationale), confidence in hundredths
SignalWithConfidence(s, c, r) == [signal |-> s, confidence |-> c, rationale |-> r]

\* Field(ge=0.0, le=1.0) of SignalWithConfidence.confidence, in hundredths
valid_confidence(c) == c >= 0 /\ c <= 100

\* the confidences supplied to a SignalWithConfidence, in hundredths
ConfidenceInputs == (0 - MaxExcess)..(100 + MaxExcess)

\* SignalWithConfidence(signal=s, confidence=c): pydantic validates the field
\* and raises ValidationError when it is out of range
Construct(s, c) ==
    /\ swc' = IF valid_confidence(c) THEN SignalWithConfidence(s, c, "") ELSE None
    /\ swc_error' = ~valid_confidence(c)
    /\ UNCHANGED fs_last

\* obj.confidence = c: the model has no validate_assignment, the value is stored
AssignConfidence(c) ==
    /\ swc # None
    /\ swc' = [swc EXCEPT !.confidence = c]
    /\ swc_error' = FALSE
    /\ UNCHANGED fs_last

\* no from_score call
NoScore == [called |-> FALSE, score |-> 0, of |-> "", result |-> "NEUTRAL"]

\* the scores handed to from_score, in hundredths
ScoreInputs == (0 - MaxScore)..MaxScore

\* Signal.from_score(x)
FromScore(x) ==
    /\ fs_last' = [called |-> TRUE, score |-> x, of |-> "",
                   result |-> from_score(Frac(x, 1))]
    /\ UNCHANGED <<swc, swc_error>>

\* Signal.from_score(s.numeric)
FromNumeric(s) ==
    /\ fs_last' = [called |-> TRUE, score |-> numeric(s), of |-> s,
                   result |-> from_score(Frac(numeric(s), 1))]
    /\ UNCHANGED <<swc, swc_error>>

\* the signals the analyzers hand to a report
SignalInputs ==
    { SignalWithConfidence("STRONG BUY", 90, ""),
      SignalWithConfidence("BUY", 80, ""),
      SignalWithConfidence("LEAN BUY", 60, ""),
      SignalWithConfidence("NEUTRAL", 50, ""),
      SignalWithConfidence("LEAN SELL", 60, ""),
      SignalWithConfidence("SELL", 70, ""),
      SignalWithConfidence("STRONG SELL", 90, "") }

-----------------------------------------------------------------------------
(* config.py *)

\* DEFAULT_WEIGHTS, in hundredths
DEFAULT_WEIGHTS ==
    [fundamental |-> 30, technical |-> 20, options |-> 15,
     macro |-> 15, sentiment |-> 10, portfolio |-> 10]

\* a caller-supplied configuration that names two dimensions only (0.89, 1.37)
TwoKeyWeights == [fundamental |-> 89, technical |-> 137]

\* the weight configurations an aggregator is constructed with
WeightConfigs == {DEFAULT_WEIGHTS, TwoKeyWeights}

-----------------------------------------------------------------------------
(* analysis/aggregator.py *)

\* the dimensions list of aggregate: (name, key) in the order of the code
dimensions ==
    << [name |-> "Fundamental",  key |-> "fundamental"],
       [name |-> "Technical",    key |-> "technical"],
       [name |-> "Options",      key |-> "options"],
       [name |-> "Macro/Sector", key |-> "macro"],
       [name |-> "Sentiment",    key |-> "sentiment"],
       [name |-> "Portfolio",    key |-> "portfolio"] >>

DimKeys == { dimensions[i].key : i \in 1..Len(dimensions) }

\* self.base_weights.get(key, 0)
get(weights, key) == IF key \in DOMAIN weights THEN weights[key] ELSE 0

\* the positions of the dimensions list
DimIdx == [i \in 1..Len(dimensions) |-> i]

\* indices of the dimensions whose signal is set / not set, in list order
available(sigs) ==
    LET Keep(i) == sigs[dimensions[i].key] # None
    IN SelectSeq(DimIdx, Keep)

unavailable(sigs) ==
    LET Keep(i) == sigs[dimensions[i].key] = None
    IN SelectSeq(DimIdx, Keep)

RECURSIVE SumSeq(_, _)
SumSeq(f, i) == IF i = 0 THEN 0 ELSE f[i] + SumSeq(f, i - 1)

\* total_avail_weight = sum(self.base_weights.get(key, 0) for available)
total_avail_weight(weights, avail) ==
    SumSeq([i \in 1..Len(avail) |-> get(weights, dimensions[avail[i]].key)], Len(avail))

\* mutant of adj_w: the weight is not redistributed
adj_w_unscaled(base_w, total) == Frac(base_w, 100)

\* adj_w = base_w / total_avail_weight if total_avail_weight > 0 else 0
adj_w(base_w, total) == IF total > 0 THEN Frac(base_w, total) ELSE Frac(0, 1)

\* a + b for fractions
FracAdd(a, b) ==
    IF a.den = b.den THEN Frac(a.num + b.num, a.den)
    ELSE Frac(a.num * b.den + b.num * a.den, a.den * b.den)

\* the accumulation loop: acc += value * adj_w over the first i available
\* dimensions, starting from 0.0
RECURSIVE WeightedAcc(_, _, _, _, _)
WeightedAcc(weights, avail, total, values, i) ==
    IF i = 0 THEN Frac(0, 1)
    ELSE LET w == adj_w(get(weights, dimensions[avail[i]].key), total)
         IN FracAdd(WeightedAcc(weights, avail, total, values, i - 1),
                    Frac(values[i] * w.num, w.den))

\* weighted_score after the loop over the available dimensions
weighted_score_of(weights, sigs) ==
    LET avail == available(sigs)
    IN WeightedAcc(weights, avail, total_avail_weight(weights, avail),
                   [i \in 1..Len(avail) |-> numeric(sigs[dimensions[avail[i]].key].signal)],
                   Len(avail))

\* weighted_conf after the loop over the available dimensions
weighted_conf_of(weights, sigs) ==
    LET avail == available(sigs)
    IN WeightedAcc(weights, avail, total_avail_weight(weights, avail),
                   [i \in 1..Len(avail) |-> sigs[dimensions[avail[i]].key].confidence],
                   Len(avail))

\* mutant of round4: truncates toward minus infinity
round4_floor(x) == (x.num * 100) \div x.den

\* round(x, 4) of a fraction in hundredths, result in ten-thousandths
\* (round half to even)
round4(x) ==
    LET n == x.num * 100
        q == n \div x.den
        r == n - q * x.den
    IN IF 2 * r > x.den THEN q + 1
       ELSE IF 2 * r < x.den THEN q
       ELSE IF q % 2 = 0 THEN q ELSE q + 1

\* the DimensionResult entries of the available dimensions
AvailableResults(weights, sigs) ==
    LET avail == available(sigs)
        total == total_avail_weight(weights, avail)
    IN [i \in 1..Len(avail) |->
          [name |-> dimensions[avail[i]].name,
           weight |-> adj_w(get(weights, dimensions[avail[i]].key), total),
           signal |-> sigs[dimensions[avail[i]].key],
           available |-> TRUE]]

\* mutant of UnavailableResults: a missing dimension gets no entry
UnavailableResults_none(weights, sigs) == <<>>

\* the DimensionResult entries of the unavailable dimensions
UnavailableResults(weights, sigs) ==
    LET unav == unavailable(sigs)
    IN [i \in 1..Len(unav) |->
          [name |-> dimensions[unav[i]].name,
           weight |-> Frac(get(weights, dimensions[unav[i]].key), 100),
           signal |-> SignalWithConfidence("NEUTRAL", 0, "Not available"),
           available |-> FALSE]]

\* ", ".join(d.name for d in ds), as the list of names
names_of(ds) == [i \in 1..Len(ds) |-> ds[i].name]

\* mutant of _build_summary: a lean signal is not named
_build_summary_lean(sig, results) ==
    LET IsBull(d) == d.available /\ numeric(d.signal.signal) > 33
        IsBear(d) == d.available /\ numeric(d.signal.signal) < -33
        bull == names_of(SelectSeq(results, IsBull))
        bear == names_of(SelectSeq(results, IsBear))
    IN <<[clause |-> "verdict", signal |-> sig]>>
       \o (IF bull # <<>> THEN <<[clause |-> "Bullish signals from", names |-> bull]>> ELSE <<>>)
       \o (IF bear # <<>> THEN <<[clause |-> "Bearish signals from", names |-> bear]>> ELSE <<>>)
       \o (IF bull = <<>> /\ bear = <<>>
           THEN <<[clause |-> "Mixed or neutral signals across all dimensions."]>> ELSE <<>>)

\* _build_summary: the clauses of the summary text
_build_summary(sig, results) ==
    LET IsBull(d) == d.available /\ numeric(d.signal.signal) > 20
        IsBear(d) == d.available /\ numeric(d.signal.signal) < -20
        bull == names_of(SelectSeq(results, IsBull))
        bear == names_of(SelectSeq(results, IsBear))
    IN <<[clause |-> "verdict", signal |-> sig]>>
       \o (IF bull # <<>> THEN <<[clause |-> "Bullish signals from", names |-> bull]>> ELSE <<>>)
       \o (IF bear # <<>> THEN <<[clause |-> "Bearish signals from", names |-> bear]>> ELSE <<>>)
       \o (IF bull = <<>> /\ bear = <<>>
           THEN <<[clause |-> "Mixed or neutral signals across all dimensions."]>> ELSE <<>>)

NoAnalysisSummary == <<[clause |-> "No analysis dimensions available."]>>

\* report.<key>_signal = v
SetSignal(key, v) ==
    /\ nsets < MaxSets
    /\ signals[key] # v
    /\ signals' = [signals EXCEPT ![key] = v]
    /\ nsets' = nsets + 1
    /\ UNCHANGED <<base_weights, dimension_results, overall_signal, overall_confidence,
                   overall_score, summary, weighted_score, aggregated, agg_signals>>

\* mutant of AggregateEmpty: the early return leaves the score of the run before
AggregateEmpty_stale ==
    /\ available(signals) = <<>>
    /\ overall_signal' = "NEUTRAL"
    /\ overall_confidence' = 0
    /\ summary' = NoAnalysisSummary
    /\ aggregated' = TRUE
    /\ agg_signals' = signals
    /\ UNCHANGED <<base_weights, signals, dimension_results, nsets, overall_score,
                   weighted_score>>

\* aggregate, the early return when no dimension is available
AggregateEmpty ==
    /\ available(signals) = <<>>
    /\ overall_signal' = "NEUTRAL"
    /\ overall_confidence' = 0
    /\ overall_score' = 0
    /\ summary' = NoAnalysisSummary
    /\ aggregated' = TRUE
    /\ agg_signals' = signals
    /\ UNCHANGED weighted_score
    /\ UNCHANGED <<base_weights, signals, dimension_results, nsets>>

\* aggregate, with at least one available dimension
AggregateFull ==
    /\ available(signals) # <<>>
    /\ LET ws == weighted_score_of(base_weights, signals)
           wc == weighted_conf_of(base_weights, signals)
           results == AvailableResults(base_weights, signals)
                        \o UnavailableResults(base_weights, signals)
           sig == from_score(ws)
       IN /\ dimension_results' = results
          /\ overall_score' = round4(ws)
          /\ overall_confidence' = round4(wc)
          /\ overall_signal' = sig
          /\ summary' = _build_summary(sig, results)
          /\ weighted_score' = ws
          /\ aggregated' = TRUE
          /\ agg_signals' = signals
    /\ UNCHANGED <<base_weights, signals, nsets>>

\* InvestmentAggregator.aggregate(report)
aggregate == AggregateEmpty \/ AggregateFull

-----------------------------------------------------------------------------
(* processing/chunker.py *)

Max(a, b) == IF a >= b THEN a ELSE b

\* estimate_tokens: max(1, int(len(text) / CHARS_PER_TOKEN)), CHARS_PER_TOKEN = 3.5
estimate_tokens(text) == Max(1, (2 * Len(text)) \div 7)

\* the characters str.strip() and the regex class \s remove
IsSpace(c) == c \in {" ", "\n", "\t"}

\* the sentence-end punctuation of the regex (?<=[.!?。])
IsSentenceEnd(c) == c \in {".", "!", "?"}

\* text.strip()
strip(text) ==
    LET solid == { i \in 1..Len(text) : ~IsSpace(text[i]) }
    IN IF solid = {} THEN <<>>
       ELSE SubSeq(text, CHOOSE i \in solid : \A j \in solid : i <= j,
                         CHOOSE i \in solid : \A j \in solid : i >= j)

\* the last index of the run of whitespace that starts at i (i - 1 if none)
RECURSIVE SpaceRunEnd(_, _)
SpaceRunEnd(text, i) ==
    IF i <= Len(text) /\ IsSpace(text[i]) THEN SpaceRunEnd(text, i + 1) ELSE i - 1

\* where a match of \n\s*\n that starts at i ends (0 if there is none):
\* the greedy \s* gives back characters up to the last newline of the run
ParagraphBreakEnd(text, i) ==
    IF text[i] # "\n" THEN 0
    ELSE LET ends == { j \in (i + 1)..SpaceRunEnd(text, i + 1) : text[j] = "\n" }
         IN IF ends = {} THEN 0 ELSE CHOOSE j \in ends : \A k \in ends : j >= k

\* re.split(r"\n\s*\n", text): the pieces between the matches, scanning from i
RECURSIVE SplitParagraphs(_, _, _)
SplitParagraphs(text, start, i) ==
    IF i > Len(text) THEN <<SubSeq(text, start, Len(text))>>
    ELSE LET e == ParagraphBreakEnd(text, i)
         IN IF e > 0
            THEN <<SubSeq(text, start, i - 1)>> \o SplitParagraphs(text, e + 1, e + 1)
            ELSE SplitParagraphs(text, start, i + 1)

\* [p.strip() for p in pieces if p.strip()]
RECURSIVE StripNonBlank(_)
StripNonBlank(pieces) ==
    IF pieces = <<>> THEN <<>>
    ELSE (IF strip(Head(pieces)) # <<>> THEN <<strip(Head(pieces))>> ELSE <<>>)
         \o StripNonBlank(Tail(pieces))

\* paragraphs of chunk_text
paragraphs_of(text) == StripNonBlank(SplitParagraphs(text, 1, 1))

\* re.split(r"(?<=[.!?。])\s+", text), scanning from i
RECURSIVE SplitSentences(_, _, _)
SplitSentences(text, start, i) ==
    IF i > Len(text) THEN <<SubSeq(text, start, Len(text))>>
    ELSE IF i > 1 /\ IsSentenceEnd(text[i - 1]) /\ IsSpace(text[i])
         THEN LET e == SpaceRunEnd(text, i)
              IN <<SubSeq(text, start, i - 1)>> \o SplitSentences(text, e + 1, e + 1)
         ELSE SplitSentences(text, start, i + 1)

\* text.split("\n"), scanning from i
RECURSIVE SplitLines(_, _, _)
SplitLines(text, start, i) ==
    IF i > Len(text) THEN <<SubSeq(text, start, Len(text))>>
    ELSE IF text[i] = "\n"
         THEN <<SubSeq(text, start, i - 1)>> \o SplitLines(text, i + 1, i + 1)
         ELSE SplitLines(text, start, i + 1)

\* len(re.findall(r"\s{3,}", line)): the runs of 3 or more whitespace
\* characters of a line, scanning from i
RECURSIVE wide_runs(_, _)
wide_runs(line, i) ==
    IF i > Len(line) THEN 0
    ELSE IF IsSpace(line[i])
         THEN LET e == SpaceRunEnd(line, i)
              IN (IF e - i + 1 >= 3 THEN 1 ELSE 0) + wide_runs(line, e + 1)
         ELSE wide_runs(line, i + 1)

\* "\t" in line or "|" in line or len(re.findall(r"\s{3,}", line)) >= 2
is_col_line(line) ==
    \/ \E i \in 1..Len(line) : line[i] \in {"\t", "|"}
    \/ wide_runs(line, 1) >= 2

\* col_lines / len(lines) > 0.5
mostly_col_lines(lines) ==
    2 * Len(SelectSeq(lines, is_col_line)) > Len(lines)

\* _is_table_block
_is_table_block(text) ==
    LET lines == SplitLines(strip(text), 1, 1)
    IN IF Len(lines) < 2 THEN FALSE ELSE mostly_col_lines(lines)

\* [text[i : i + max_chars] for i in range(0, len(text), max_chars)]
RECURSIVE Windows(_, _, _)
Windows(text, from, max_chars) ==
    IF from > Len(text) THEN <<>>
    ELSE <<SubSeq(text, from, IF from + max_chars - 1 < Len(text)
                              THEN from + max_chars - 1 ELSE Len(text))>>
         \o Windows(text, from + max_chars, max_chars)

\* mutant of PackSentences: the sentences left in current after the loop are
\* not appended
RECURSIVE PackSentences_droplast(_, _, _, _, _)
PackSentences_droplast(sentences, i, current, result, max_tokens) ==
    IF i > Len(sentences) THEN result
    ELSE LET sent == sentences[i]
         IN IF estimate_tokens(current \o <<" ">> \o sent) > max_tokens /\ current # <<>>
            THEN PackSentences_droplast(sentences, i + 1, sent,
                                        Append(result, strip(current)), max_tokens)
            ELSE PackSentences_droplast(sentences, i + 1,
                               IF current # <<>> THEN strip(current \o <<" ">> \o sent)
                               ELSE sent,
                               result, max_tokens)

\* the packing loop of _split_large_block, from sentence i on
RECURSIVE PackSentences(_, _, _, _, _)
PackSentences(sentences, i, current, result, max_tokens) ==
    IF i > Len(sentences)
    THEN IF strip(current) # <<>> THEN Append(result, strip(current)) ELSE result
    ELSE LET sent == sentences[i]
         IN IF estimate_tokens(current \o <<" ">> \o sent) > max_tokens /\ current # <<>>
            THEN PackSentences(sentences, i + 1, sent,
                               Append(result, strip(current)), max_tokens)
            ELSE PackSentences(sentences, i + 1,
                               IF current # <<>> THEN strip(current \o <<" ">> \o sent)
                               ELSE sent,
                               result, max_tokens)

\* _split_large_block
_split_large_block(text, max_tokens) ==
    LET by_sentence == SplitSentences(text, 1, 1)
        sentences == IF Len(by_sentence) <= 1 THEN SplitLines(text, 1, 1) ELSE by_sentence
    IN IF Len(sentences) <= 1
       THEN Windows(text, 1, (7 * max_tokens) \div 2)
       ELSE PackSentences(sentences, 1, <<>>, <<>>, max_tokens)

\* page_start / page_end of a chunk made with an empty page list
NonePage == 0

\* page_offsets of chunk_text: cumulative len(page) + 2
RECURSIVE page_offsets_of(_, _)
page_offsets_of(pgs, n) ==
    IF n = 0 THEN <<>>
    ELSE LET before == page_offsets_of(pgs, n - 1)
         IN Append(before, (IF n = 1 THEN 0 ELSE before[n - 1]) + Len(pgs[n]) + 2)

\* _find_page: the 0-indexed page of an offset
_find_page(offset, page_offsets) ==
    LET hits == { i \in 1..Len(page_offsets) : offset < page_offsets[i] }
    IN IF hits = {} THEN Len(page_offsets) - 1
       ELSE (CHOOSE i \in hits : \A j \in hits : i <= j) - 1

\* _make_chunk
_make_chunk(text, index, start_offset, page_offsets) ==
    [chunk_index |-> index,
     content |-> text,
     page_start |-> IF page_offsets # <<>>
                    THEN _find_page(start_offset, page_offsets) + 1 ELSE NonePage,
     page_end |-> IF page_offsets # <<>>
                  THEN _find_page(start_offset + Len(text), page_offsets) + 1 ELSE NonePage,
     token_count |-> estimate_tokens(text),
     is_table |-> _is_table_block(text)]

\* chunks.append(_make_chunk(sc, report_id, len(chunks), text_offset, page_offsets))
\* for each sub-chunk
RECURSIVE AppendSubChunks(_, _, _, _)
AppendSubChunks(chs, subs, text_offset, page_offsets) ==
    IF subs = <<>> THEN chs
    ELSE AppendSubChunks(Append(chs, _make_chunk(Head(subs), Len(chs), text_offset, page_offsets)),
                         Tail(subs), text_offset, page_offsets)

\* the flush of the buffer: appended when current_text.strip() is not empty
Flush(chs, current_text, current_start_offset, page_offsets) ==
    IF strip(current_text) # <<>>
    THEN Append(chs, _make_chunk(strip(current_text), Len(chs), current_start_offset, page_offsets))
    ELSE chs

\* mutant of TooLarge: a paragraph of exactly max_tokens is split as well
TooLarge_inclusive(para_tokens, max_tokens) == para_tokens >= max_tokens

\* the test that sends a paragraph to _split_large_block
TooLarge(para_tokens, max_tokens) == para_tokens > max_tokens

\* one pass of the loop over the paragraphs; st holds chunks, current_text,
\* current_start_offset and text_offset
LoopBody(st, para, max_tokens, page_offsets) ==
    IF TooLarge(estimate_tokens(para), max_tokens)
    THEN [chunks |-> AppendSubChunks(
                        Flush(st.chunks, st.current_text, st.current_start_offset, page_offsets),
                        _split_large_block(para, max_tokens), st.text_offset, page_offsets),
          current_text |-> IF strip(st.current_text) # <<>> THEN <<>> ELSE st.current_text,
          current_start_offset |-> st.text_offset + Len(para) + 2,
          text_offset |-> st.text_offset + Len(para) + 2]
    ELSE IF estimate_tokens(st.current_text \o <<"\n", "\n">> \o para) > max_tokens
            /\ strip(st.current_text) # <<>>
    THEN [chunks |-> Flush(st.chunks, st.current_text, st.current_start_offset, page_offsets),
          current_text |-> para,
          current_start_offset |-> st.text_offset,
          text_offset |-> st.text_offset + Len(para) + 2]
    ELSE [chunks |-> st.chunks,
          current_text |-> IF st.current_text # <<>>
                           THEN st.current_text \o <<"\n", "\n">> \o para ELSE para,
          current_start_offset |-> IF st.current_text # <<>>
                                   THEN st.current_start_offset ELSE st.text_offset,
          text_offset |-> st.text_offset + Len(para) + 2]

\* the loop over the paragraphs, from paragraph i on
RECURSIVE Loop(_, _, _, _, _)
Loop(st, paras, i, max_tokens, page_offsets) ==
    IF i > Len(paras) THEN st
    ELSE Loop(LoopBody(st, paras[i], max_tokens, page_offsets), paras, i + 1,
              max_tokens, page_offsets)

\* mutant of MergeTrailing: the merged text is put in the last chunk and the
\* one before it is removed
MergeTrailing_keeplast(chs, min_tokens, max_tokens) ==
    IF Len(chs) > 1
    THEN LET last == chs[Len(chs)]
             prev == chs[Len(chs) - 1]
             merged == prev.content \o <<"\n", "\n">> \o last.content
         IN IF last.token_count < min_tokens /\ 2 * estimate_tokens(merged) <= 3 * max_tokens
            THEN SubSeq(chs, 1, Len(chs) - 2)
                 \o <<[last EXCEPT !.content = merged,
                                   !.token_count = estimate_tokens(merged),
                                   !.page_start = prev.page_start]>>
            ELSE chs
    ELSE chs

\* mutant of MergeTrailing: the token count of the merged chunk is not re-estimated
MergeTrailing_stalecount(chs, min_tokens, max_tokens) ==
    IF Len(chs) > 1
    THEN LET last == chs[Len(chs)]
             prev == chs[Len(chs) - 1]
             merged == prev.content \o <<"\n", "\n">> \o last.content
         IN IF last.token_count < min_tokens /\ 2 * estimate_tokens(merged) <= 3 * max_tokens
            THEN SubSeq(chs, 1, Len(chs) - 2)
                 \o <<[prev EXCEPT !.content = merged,
                                   !.page_end = last.page_end]>>
            ELSE chs
    ELSE chs

\* "Merge tiny trailing chunks"
MergeTrailing(chs, min_tokens, max_tokens) ==
    IF Len(chs) > 1
    THEN LET last == chs[Len(chs)]
             prev == chs[Len(chs) - 1]
             merged == prev.content \o <<"\n", "\n">> \o last.content
         IN IF last.token_count < min_tokens /\ 2 * estimate_tokens(merged) <= 3 * max_tokens
            THEN SubSeq(chs, 1, Len(chs) - 2)
                 \o <<[prev EXCEPT !.content = merged,
                                   !.token_count = estimate_tokens(merged),
                                   !.page_end = last.page_end]>>
            ELSE chs
    ELSE chs

\* chunk_text up to "Flush remaining": the chunks before the trailing merge
BuildChunks(text, pgs, max_tokens) ==
    LET page_offsets == page_offsets_of(pgs, Len(pgs))
        st == Loop([chunks |-> <<>>, current_text |-> <<>>,
                    current_start_offset |-> 0, text_offset |-> 0],
                   paragraphs_of(text), 1, max_tokens, page_offsets)
    IN Flush(st.chunks, st.current_text, st.current_start_offset, page_offsets)

\* chunk_text(full_text, pages, report_id, target_tokens, min_tokens, max_tokens);
\* target_tokens is not read by the function
chunk_text(text, pgs, min_tokens, max_tokens) ==
    MergeTrailing(BuildChunks(text, pgs, max_tokens), min_tokens, max_tokens)

-----------------------------------------------------------------------------
(* processing/pdf_extractor.py and processing/__init__.py *)

\* "\n\n".join(pages)
RECURSIVE join(_)
join(pgs) ==
    IF pgs = <<>> THEN <<>>
    ELSE IF Len(pgs) = 1 THEN pgs[1]
    ELSE pgs[1] \o <<"\n", "\n">> \o join(Tail(pgs))

\* extract_pdf: the text of the pages that are not blank
extract_pdf(d) == SelectSeq(d, LAMBDA text : strip(text) # <<>>)

\* the pieces of text a page of a file is made of
Pieces == { <<"a", "a">>, <<"b", "b", "b", "b", "b", "b", "b">>, <<".", " ">>, <<"\n">> }

\* the pieces of text a page of a file with columns is made of
TablePieces == { <<"a", " ", " ", " ">>, <<"|", "a">>, <<"\n">>, <<"\t">> }

\* the token budgets of ReferenceConfig: chunk_min_tokens <= chunk_target_tokens
\* <= chunk_max_tokens
Budgets ==
    { [min_tokens |-> 1, target_tokens |-> 1, max_tokens |-> 1],
      [min_tokens |-> 1, target_tokens |-> 2, max_tokens |-> 2],
      [min_tokens |-> 2, target_tokens |-> 2, max_tokens |-> 2] }

\* the file gets one more page
NewPage ==
    /\ pc = "file"
    /\ Len(doc) < MaxPages
    /\ doc' = Append(doc, <<>>)
    /\ UNCHANGED <<budget, pages, full_text, chunks, pc, npieces>>

\* the last page of the file gets one more piece of text
TypePiece(p) ==
    /\ pc = "file"
    /\ doc # <<>>
    /\ npieces < MaxPieces
    /\ doc' = [doc EXCEPT ![Len(doc)] = @ \o p]
    /\ npieces' = npieces + 1
    /\ UNCHANGED <<budget, pages, full_text, chunks, pc>>

\* process_reports, "Extract": pages = extract_pdf(filepath),
\* full_text = "\n\n".join(pages)
Extract ==
    /\ pc = "file"
    /\ pages' = extract_pdf(doc)
    /\ full_text' = join(extract_pdf(doc))
    /\ pc' = "extracted"
    /\ UNCHANGED <<doc, budget, chunks, npieces>>

\* process_reports, "Chunk": chunks = chunk_text(full_text, pages, ...)
Chunk ==
    /\ pc = "extracted"
    /\ chunks' = chunk_text(full_text, pages, budget.min_tokens, budget.max_tokens)
    /\ pc' = "chunked"
    /\ UNCHANGED <<doc, budget, pages, full_text, npieces>>

-----------------------------------------------------------------------------
(* db.py: the chunks table *)

\* Chunk.embedding = None, the embedding column NULL
NoEmbedding == <<>>

\* the embeddings the embedder stores: unit vectors, in hundredths
Vectors == {<<60, 80>>, <<-100, 0>>}

ReportIds == {1, 2}

\* the (report_id, chunk_index) of the chunks of two reports
ChunkKeys == {<<1, 0>>, <<1, 1>>, <<2, 0>>}

\* a Chunk, by the columns that the index reads
ChunkRows ==
    {[report_id |-> k[1], chunk_index |-> k[2], embedding |-> e] :
        k \in ChunkKeys, e \in Vectors \cup {NoEmbedding}}

\* UNIQUE(report_id, chunk_index)
SameKey(a, b) == a.report_id = b.report_id /\ a.chunk_index = b.chunk_index

\* insert_chunks: INSERT OR REPLACE of each chunk of the list, in order
RECURSIVE insert_chunks(_, _)
insert_chunks(rows, cs) ==
    IF cs = <<>> THEN rows
    ELSE insert_chunks({r \in rows : ~SameKey(r, Head(cs))} \cup {Head(cs)},
                       Tail(cs))

\* ORDER BY report_id, chunk_index
KeyBefore(a, b) ==
    \/ a.report_id < b.report_id
    \/ a.report_id = b.report_id /\ a.chunk_index < b.chunk_index

RECURSIVE OrderByKey(_)
OrderByKey(S) ==
    IF S = {} THEN <<>>
    ELSE LET first == CHOOSE r \in S : \A o \in S \ {r} : KeyBefore(r, o)
         IN  <<first>> \o OrderByKey(S \ {first})

\* get_all_embedded_chunks: WHERE embedding IS NOT NULL ORDER BY report_id,
\* chunk_index; each row as the pair of the Chunk, its embedding popped, and the
\* embedding
get_all_embedded_chunks(rows) ==
    LET embedded == OrderByKey({r \in rows : r.embedding # NoEmbedding})
    IN  [i \in 1..Len(embedded) |->
            <<[embedded[i] EXCEPT !.embedding = NoEmbedding], embedded[i].embedding>>]

-----------------------------------------------------------------------------
(* search/indexer.py *)

\* SearchIndex.embeddings = None; np.vstack never returns it
NoMatrix == <<NoEmbedding>>

\* SearchIndex.size
size(cs) == Len(cs)

\* build's early return when the store has no embedded chunk
NoRows(rows) == rows = <<>>

\* the index <<chunks, report_ids, embeddings>> that build(db) leaves
build(index, rows) ==
    IF NoRows(rows) THEN index
    ELSE <<[i \in 1..Len(rows) |-> rows[i][1]],
           [i \in 1..Len(rows) |-> rows[i][1].report_id],
           [i \in 1..Len(rows) |-> rows[i][2]]>>

\* the query embeddings handed to search, in hundredths; <<6, 8>> is not normalized
Queries == {<<100, 0>>, <<6, 8>>, <<0, 0>>}

\* report_id_filter: None, or a set of report ids
NoFilter == [none |-> TRUE, ids |-> {}]

Filters == {NoFilter} \cup [none : {FALSE}, ids : SUBSET ReportIds]

Abs(x) == IF x < 0 THEN -x ELSE x

\* a @ b, for vectors in hundredths: ten-thousandths
Dot(a, b) == SumSeq([i \in 1..Len(a) |-> a[i] * b[i]], Len(a))

\* np.linalg.norm(q), in hundredths; exact for each of Queries
norm(q) ==
    CHOOSE r \in 0..SumSeq([i \in 1..Len(q) |-> Abs(q[i])], Len(q)) :
        r * r = Dot(q, q)

\* query_embedding / (norm + 1e-10), in hundredths.  The 1e-10 makes the zero
\* vector divide to zero; on any other query it is below the model's resolution.
query_norm(q) ==
    IF norm(q) = 0 THEN [i \in 1..Len(q) |-> 0]
    ELSE [i \in 1..Len(q) |-> (q[i] * 100) \div norm(q)]

\* -np.inf: below every score
NegInf == -1000000000

\* query_norm of each query, computed once
query_norms == [q \in Queries |-> query_norm(q)]

\* embedding @ query_norm in ten-thousandths, for each query and stored vector
products == [q \in Queries |-> [v \in Vectors |-> Dot(v, query_norms[q])]]

\* scores = self.embeddings @ query_norm, in ten-thousandths
cosine_scores(embeddings, q) ==
    [i \in 1..Len(embeddings) |-> products[q][embeddings[i]]]

\* np.where(mask, scores, -np.inf) without the mask
mask_scores_unmasked(scores, report_ids, report_id_filter) == scores

\* np.where(mask, scores, -np.inf), mask[i] = report_ids[i] in report_id_filter
mask_scores(scores, report_ids, report_id_filter) ==
    IF report_id_filter.none THEN scores
    ELSE [i \in 1..Len(scores) |->
            IF report_ids[i] \in report_id_filter.ids THEN scores[i] ELSE NegInf]

Min(a, b) == IF a <= b THEN a ELSE b

Reverse(s) == [i \in 1..Len(s) |-> s[Len(s) + 1 - i]]

\* np.argsort(scores): the orders of the indices by ascending score.  The
\* default sort is not stable, so equal scores come in either order.
argsort(scores) ==
    {p \in [1..Len(scores) -> 1..Len(scores)] :
        /\ \A i, j \in 1..Len(scores) : i # j => p[i] # p[j]
        /\ \A i \in 1..(Len(scores) - 1) : scores[p[i]] <= scores[p[i + 1]]}

\* np.argsort(scores)[:k], without the [::-1]
top_indices_ascending(order, k) == SubSeq(order, 1, k)

\* np.argsort(scores)[::-1][:k]
top_indices(order, k) == SubSeq(Reverse(order), 1, k)

\* the guard of search, when it never returns early
is_empty_never(embeddings, cs) == FALSE

\* self.embeddings is None or self.size == 0
is_empty(embeddings, cs) == embeddings = NoMatrix \/ size(cs) = 0

\* the outcome of search on an index whose embeddings is None, past the guard:
\* None @ query_norm is a TypeError
SearchRaises == <<[raised |-> "TypeError"]>>

\* the masked scores that search sorts
masked_scores(index, q, report_id_filter) ==
    mask_scores(cosine_scores(index[3], q), index[2], report_id_filter)

\* search(query_embedding, top_k, report_id_filter) on the index
\* <<chunks, report_ids, embeddings>>, for one order that argsort returns
search(index, q, top_k, report_id_filter, order) ==
    IF is_empty(index[3], index[1]) THEN <<>>
    ELSE IF index[3] = NoMatrix THEN SearchRaises
    ELSE
    LET cs == index[1]
        scores == masked_scores(index, q, report_id_filter)
        k == Min(top_k, size(cs))
        top == top_indices(order, k)
        kept == SelectSeq(top, LAMBDA i : ~(scores[i] <= NegInf))
    IN  [n \in 1..Len(kept) |-> [chunk |-> cs[kept[n]], score |-> scores[kept[n]]]]

\* no search has been made of the index as it is
NoCall == [called |-> FALSE, query |-> <<>>, top_k |-> 0, report_id_filter |-> NoFilter]

\* db.insert_chunks(cs)
InsertChunks(cs) ==
    /\ ninserts < MaxInserts
    /\ db_chunks' = insert_chunks(db_chunks, cs)
    /\ ninserts' = ninserts + 1
    /\ built' = FALSE
    /\ UNCHANGED <<idx_chunks, idx_report_ids, idx_embeddings, search_call,
                   search_results>>

\* index.build(db)
Build ==
    LET index == build(<<idx_chunks, idx_report_ids, idx_embeddings>>,
                       get_all_embedded_chunks(db_chunks))
    IN  /\ idx_chunks' = index[1]
        /\ idx_report_ids' = index[2]
        /\ idx_embeddings' = index[3]
        /\ search_call' = NoCall
        /\ search_results' = <<>>
        /\ built' = TRUE
        /\ UNCHANGED <<db_chunks, ninserts>>

\* index.search(q, top_k, report_id_filter)
Search(q, top_k, report_id_filter) ==
    LET index == <<idx_chunks, idx_report_ids, idx_embeddings>>
        orders == IF index[3] = NoMatrix THEN {<<>>}
                  ELSE argsort(masked_scores(index, q, report_id_filter))
    IN  /\ search_call' = [called |-> TRUE, query |-> q, top_k |-> top_k,
                           report_id_filter |-> report_id_filter]
        /\ \E order \in orders :
              search_results' = search(index, q, top_k, report_id_filter, order)
        /\ UNCHANGED <<db_chunks, idx_chunks, idx_report_ids, idx_embeddings,
                       built, ninserts>>

-----------------------------------------------------------------------------
(* cli.py _run_process and processing/__init__.py process_reports *)

\* what goes wrong while one report is processed
Faults ==
    {"none", "no file_name", "file not found", "extract_pdf raises",
     "chunking raises", "embed_batch raises"}

\* the cost that embed_batch returns for the chunks of one report
Costs == {0, 1, 3}

\* --cost-limit, in the unit of Costs
CostLimits == {0, 2}

\* the reports that _run_process hands to process_reports, as the Report
\* objects read from the store
select_reports_any(processing, download) ==
    LET sel == SelectSeq([i \in 1..MaxReports |-> i],
                         LAMBDA r : download[r] = "downloaded")
    IN  [n \in 1..Len(sel) |-> [id |-> sel[n], processing_status |-> processing[sel[n]]]]

select_reports(processing, download) ==
    LET sel == SelectSeq([i \in 1..MaxReports |-> i],
                         LAMBDA r : /\ download[r] = "downloaded"
                                    /\ processing[r] \in {"unprocessed", "extracted", "chunked"})
    IN  [n \in 1..Len(sel) |-> [id |-> sel[n], processing_status |-> processing[sel[n]]]]

\* one pass of the loop of process_reports over a report whose Report object
\* has processing_status snap and whose stored status is stored: the stored
\* status it leaves, the cost it adds to total_cost, how the pass ends
\* ("continue", "raise" when the exception leaves process_reports, "embedded")
\* and whether one of the stages failed
process_one(snap, stored, fault, cost) ==
    IF fault = "no file_name"
    THEN [status |-> stored, cost |-> 0, ends |-> "continue", failed |-> FALSE]
    ELSE IF fault = "file not found"
    THEN [status |-> "failed", cost |-> 0, ends |-> "continue", failed |-> TRUE]
    ELSE IF fault = "extract_pdf raises"
    THEN IF snap = "unprocessed"
         THEN [status |-> "failed", cost |-> 0, ends |-> "continue", failed |-> TRUE]
         ELSE [status |-> stored, cost |-> 0, ends |-> "raise", failed |-> TRUE]
    ELSE
    LET extracted == IF snap = "unprocessed" THEN "extracted" ELSE stored
        chunks_stage == snap \in {"unprocessed", "extracted"}
    IN  IF chunks_stage /\ fault = "chunking raises"
        THEN [status |-> extracted, cost |-> 0, ends |-> "raise", failed |-> TRUE]
        ELSE IF fault = "embed_batch raises"
        THEN [status |-> "chunked", cost |-> 0, ends |-> "continue", failed |-> TRUE]
        ELSE [status |-> "embedded", cost |-> cost, ends |-> "embedded",
              failed |-> FALSE]

\* the break of process_reports after a report is embedded
cost_limit_reached(limit, total) == limit > 0 /\ total >= limit

\* the update command downloads the file of a cataloged report
Download(r) ==
    /\ run # "running"
    /\ rep_download[r] = "pending"
    /\ rep_download' = [rep_download EXCEPT ![r] = "downloaded"]
    /\ UNCHANGED <<rep_processing, cost_limit, batch, batch_pos, total_cost, run, faulted>>

\* the process command with --cost-limit limit, up to the first report
StartProcess(limit) ==
    /\ run # "running"
    /\ cost_limit' = limit
    /\ batch' = select_reports(rep_processing, rep_download)
    /\ batch_pos' = 1
    /\ total_cost' = 0
    /\ faulted' = {}
    /\ run' = IF batch' = <<>> THEN "done" ELSE "running"
    /\ UNCHANGED <<rep_processing, rep_download>>

\* one pass of the loop of process_reports
ProcessReport(fault, cost) ==
    /\ run = "running"
    /\ batch_pos <= Len(batch)
    /\ LET report == batch[batch_pos]
           out == process_one(report.processing_status, rep_processing[report.id],
                              fault, cost)
           total == total_cost + out.cost
       IN  /\ rep_processing' = [rep_processing EXCEPT ![report.id] = out.status]
           /\ total_cost' = total
           /\ faulted' = IF out.failed THEN faulted \cup {report.id} ELSE faulted
           /\ batch_pos' = batch_pos + 1
           /\ run' = IF out.ends = "raise" THEN "raised"
                     ELSE IF out.ends = "embedded" /\ cost_limit_reached(cost_limit, total)
                     THEN "halted"
                     ELSE "running"
    /\ UNCHANGED <<rep_download, cost_limit, batch>>

\* the end of the loop of process_reports
FinishProcess ==
    /\ run = "running"
    /\ batch_pos > Len(batch)
    /\ run' = "done"
    /\ UNCHANGED <<rep_processing, rep_download, cost_limit, batch, batch_pos,
                   total_cost, faulted>>

-----------------------------------------------------------------------------
(* processing/__init__.py process_reports with the chunks table *)

\* --embedding-provider
Providers == {"local", "gemini"}

\* get_embedder(provider, config).model_name, under the default config
model_name(provider) ==
    IF provider = "gemini" THEN "text-embedding-004"
    ELSE "nomic-ai/nomic-embed-text-v2-moe"

\* Chunk.embedding_model = None, the embedding_model column NULL
NoModel == "NULL"

\* the texts of the chunks
Contents == {"a", "b"}

\* the most chunks that chunk_text makes of one report
MaxChunks == 2

\* the bytes that embed_batch returns for one text: they depend on the model
\* and on the text
embed(model, text) == <<model, text>>

\* the list that chunk_text returns for report id, with the given contents:
\* chunk_index counts from 0, no embedding yet
chunking(id, contents) ==
    [n \in 1..Len(contents) |->
        [report_id |-> id, chunk_index |-> n - 1, content |-> contents[n],
         embedding |-> NoEmbedding, embedding_model |-> NoModel]]

ContentLists == UNION {[1..n -> Contents] : n \in 0..MaxChunks}

\* db.get_chunks(report_id=id): the rows of the report in the order of
\* chunk_index, without the embedding column
get_chunks(rows, id) ==
    LET ordered == OrderByKey({r \in rows : r.report_id = id})
    IN  [n \in 1..Len(ordered) |-> [ordered[n] EXCEPT !.embedding = NoEmbedding]]

\* the loop over zip(chunks_to_embed, embeddings), embed_batch returning one
\* vector for each text
embed_chunks_nomodel(cs, model) ==
    [n \in 1..Len(cs) |-> [cs[n] EXCEPT !.embedding = embed(model, cs[n].content)]]

embed_chunks(cs, model) ==
    [n \in 1..Len(cs) |->
        [cs[n] EXCEPT !.embedding = embed(model, cs[n].content),
                      !.embedding_model = model]]

\* what one pass of the loop of process_reports does to the chunks table:
\* the rows it leaves, and the rows as they were before the embedding step
process_chunks(rows, id, snap, fault, cs, model) ==
    IF fault \in {"no file_name", "file not found", "extract_pdf raises"}
    THEN [rows |-> rows, chunked |-> rows]
    ELSE
    LET chunks_stage == snap \in {"unprocessed", "extracted"}
    IN  IF chunks_stage /\ fault = "chunking raises"
        THEN [rows |-> rows, chunked |-> rows]
        ELSE LET chunked == IF chunks_stage THEN insert_chunks(rows, cs) ELSE rows
             IN  IF fault = "embed_batch raises"
                 THEN [rows |-> chunked, chunked |-> chunked]
                 ELSE [rows |-> insert_chunks(chunked,
                                    embed_chunks(get_chunks(chunked, id), model)),
                       chunked |-> chunked]

\* the statuses that one pass of the loop writes with update_report_processing,
\* in the order of the calls
status_writes(snap, fault) ==
    IF fault = "no file_name" THEN <<>>
    ELSE IF fault = "file not found" THEN <<"failed">>
    ELSE IF fault = "extract_pdf raises"
    THEN IF snap = "unprocessed" THEN <<"failed">> ELSE <<>>
    ELSE
    LET extract == IF snap = "unprocessed" THEN <<"extracted">> ELSE <<>>
        chunks_stage == snap \in {"unprocessed", "extracted"}
    IN  IF chunks_stage /\ fault = "chunking raises" THEN extract
        ELSE extract \o (IF chunks_stage THEN <<"chunked">> ELSE <<>>)
                     \o (IF fault = "embed_batch raises" THEN <<"chunked">>
                         ELSE <<"embedded">>)

\* no pass of the loop has been made in this run
NoPass == [id |-> 0, before |-> "", writes |-> <<>>, chunked |-> {}]

\* the process command with --embedding-provider provider and --cost-limit
\* limit, up to the first report
RunProcess(provider, limit) ==
    /\ StartProcess(limit)
    /\ embedder' = model_name(provider)
    /\ last_pass' = NoPass
    /\ UNCHANGED db_chunks

\* one pass of the loop of process_reports, with the chunks table; contents
\* are the texts of the chunks that chunk_text makes of the report
ProcessPass(fault, cost, contents) ==
    /\ ProcessReport(fault, cost)
    /\ LET report == batch[batch_pos]
           out == process_chunks(db_chunks, report.id, report.processing_status,
                                 fault, chunking(report.id, contents), embedder)
       IN  /\ db_chunks' = out.rows
           /\ last_pass' = [id |-> report.id,
                            before |-> rep_processing[report.id],
                            writes |-> status_writes(report.processing_status, fault),
                            chunked |-> {r \in out.chunked : r.report_id = report.id}]
    /\ UNCHANGED embedder

\* the chunks table when the process command starts: empty, or with a chunk
\* of report 1 that a run left which was killed between insert_chunks and
\* the update of the status
LeftoverStores ==
    {{}, {[report_id |-> 1, chunk_index |-> 1, content |-> "b",
           embedding |-> NoEmbedding, embedding_model |-> NoModel]}}

-----------------------------------------------------------------------------
(* db.py: the reports table *)

SourceIds == {1, 2}

ExternalIds == {"123", "456"}

Titles == {"Test Report", "Test Report Updated"}

\* the Report objects that a scraper hands to upsert_report
ReportInputs ==
    [source_id : SourceIds, external_id : ExternalIds, title : Titles,
     download_status : {"pending"}]

\* SELECT id FROM reports WHERE source_id = ? AND external_id = ?
existing_rows(rows, report) ==
    {x \in rows : x.source_id = report.source_id /\ x.external_id = report.external_id}

\* last_insert_rowid() of an AUTOINCREMENT table that never deletes
next_rowid(rows) == Cardinality(rows) + 1

\* upsert_report, when it writes the columns of the Report over the stored row
upsert_report_overwrite(rows, report) ==
    LET found == existing_rows(rows, report)
    IN  IF found # {}
        THEN LET old == CHOOSE x \in found : TRUE
             IN  [rows |-> (rows \ {old}) \cup
                            {[old EXCEPT !.title = report.title,
                                         !.download_status = report.download_status]},
                  id |-> old.id]
        ELSE [rows |-> rows \cup {[id |-> next_rowid(rows),
                                    source_id |-> report.source_id,
                                    external_id |-> report.external_id,
                                    title |-> report.title,
                                    download_status |-> report.download_status]},
              id |-> next_rowid(rows)]

\* upsert_report: the rows it leaves and the id of the Report it returns
upsert_report(rows, report) ==
    LET found == existing_rows(rows, report)
    IN  IF found # {}
        THEN [rows |-> rows, id |-> (CHOOSE x \in found : TRUE).id]
        ELSE [rows |-> rows \cup {[id |-> next_rowid(rows),
                                    source_id |-> report.source_id,
                                    external_id |-> report.external_id,
                                    title |-> report.title,
                                    download_status |-> report.download_status]},
              id |-> next_rowid(rows)]

\* update_report_download: UPDATE reports SET download_status = ? WHERE id = ?
update_report_download(rows, report_id, status) ==
    {IF x.id = report_id THEN [x EXCEPT !.download_status = status] ELSE x : x \in rows}

\* no upsert_report call is on record
NoUpsert ==
    [called |-> FALSE, source_id |-> 0, external_id |-> "", title |-> "",
     download_status |-> "pending"]

\* db.upsert_report(report)
UpsertReport(report) ==
    LET out == upsert_report(reports, report)
    IN  /\ reports' = out.rows
        /\ upsert_id' = out.id
        /\ upsert_before' = reports
        /\ upsert_call' = [called |-> TRUE, source_id |-> report.source_id,
                           external_id |-> report.external_id,
                           title |-> report.title,
                           download_status |-> report.download_status]

\* db.update_report_download(report_id, status=DOWNLOADED) of a pending report
UpdateReportDownload(report_id) ==
    /\ \E x \in reports : x.id = report_id /\ x.download_status = "pending"
    /\ reports' = update_report_download(reports, report_id, "downloaded")
    /\ upsert_call' = NoUpsert
    /\ upsert_before' = {}
    /\ upsert_id' = 0

-----------------------------------------------------------------------------
(* cli.py run_analysis, data/yfinance_client.py and the analyzers' no-data paths *)

\* the data that run_analysis fetches: info, history, recommendations and the
\* SPY, sector and ^TNX histories from yfinance, the option chain from IBKR,
\* the holdings from the sheet
Fetches == {"info", "history", "recommendations", "sector", "chain", "holdings"}

\* the signals of an analyzer that had data
AnalyzerOutputs ==
    {SignalWithConfidence("BUY", 80, ""), SignalWithConfidence("SELL", 70, "")}

\* whether the fetches that a dimension's rules read all came back empty
no_data(key, ok) ==
    CASE key = "fundamental" -> ~ok["info"]
      [] key = "technical"   -> ~ok["history"]
      [] key = "macro"       -> ~ok["sector"]
      [] key = "sentiment"   -> ~ok["info"] /\ ~ok["recommendations"]
      [] key = "options"     -> ~ok["chain"]
      [] key = "portfolio"   -> ~ok["holdings"]

\* the signal of a dimension without data, were it left null
no_data_signal_null(key) == None

\* the signal that run_analysis leaves for a dimension without data: the
\* analyzers' NEUTRAL signals, and None where the analyzer is not run
no_data_signal(key) ==
    CASE key = "fundamental" -> SignalWithConfidence("NEUTRAL", 20, "Insufficient fundamental data")
      [] key = "technical"   -> SignalWithConfidence("NEUTRAL", 20, "Insufficient price history")
      [] key = "macro"       -> SignalWithConfidence("NEUTRAL", 30, "Limited macro data")
      [] key = "sentiment"   -> SignalWithConfidence("NEUTRAL", 30, "Limited sentiment data")
      [] key = "options"     -> None
      [] key = "portfolio"   -> None

\* run_analysis up to the call of aggregate: every fetch returns data or, its
\* exception caught in the client, the empty value; each analyzer is run on
\* what came back
FetchAndAnalyze(ok, out) ==
    /\ run_pc = "start"
    /\ fetched' = ok
    /\ signals' = [key \in DimKeys |->
                      IF no_data(key, ok) THEN no_data_signal(key) ELSE out[key]]
    /\ run_pc' = "analyzed"
    /\ UNCHANGED <<base_weights, dimension_results, overall_signal,
                   overall_confidence, overall_score, summary, weighted_score,
                   aggregated, agg_signals, nsets>>

\* agg.aggregate(report) at the end of run_analysis
RunAggregate ==
    /\ run_pc = "analyzed"
    /\ aggregate
    /\ run_pc' = "aggregated"
    /\ UNCHANGED fetched

-----------------------------------------------------------------------------
(* analysis/fundamental.py, technical.py, options_flow.py, macro.py,        *)
(* sentiment.py, portfolio.py: the scoring of the six analyzers.  A rule    *)
(* reads one metric; its outcome is <<>> when it appends no score and <<x>> *)
(* when it appends the score x (hundredths).  The rationale is the fixed    *)
(* text of the code or, for the joined reason fragments, "reasons".         *)

Analyzers == {"fundamental", "technical", "options", "macro", "sentiment", "portfolio"}

\* one rule of a scoring table: the outcomes it can have and whether it
\* appends a reason fragment with its score
Rule(outcomes, reason) == [outcomes |-> outcomes, reason |-> reason]

\* the rules of each _score, in the order of the code
rules(a) ==
    CASE a = "fundamental" ->
            << Rule({<<>>, <<80>>, <<30>>, <<-20>>, <<-60>>}, TRUE),
               Rule({<<>>, <<70>>, <<20>>, <<-40>>}, TRUE),
               Rule({<<>>, <<70>>, <<30>>, <<0>>, <<-50>>}, TRUE),
               Rule({<<>>, <<60>>, <<30>>, <<0>>, <<-50>>}, TRUE),
               Rule({<<>>, <<50>>, <<20>>, <<-20>>, <<-50>>}, TRUE) >>
      [] a = "technical" ->
            << Rule({<<>>, <<70>>, <<30>>, <<-70>>, <<-30>>, <<10>>}, TRUE),
               Rule({<<>>, <<40>>, <<-40>>}, TRUE),
               Rule({<<30>>, <<0>>, <<-30>>}, FALSE),
               Rule({<<30>>, <<0>>, <<-30>>}, FALSE),
               Rule({<<>>, <<60>>, <<-60>>}, TRUE),
               Rule({<<>>, <<30>>, <<-30>>}, TRUE) >>
      [] a = "options" ->
            << Rule({<<>>, <<50>>, <<20>>, <<-30>>, <<0>>}, TRUE),
               Rule({<<>>, <<-30>>, <<30>>}, TRUE) >>
      [] a = "macro" ->
            << Rule({<<>>, <<50>>, <<20>>, <<-20>>, <<-50>>}, TRUE),
               Rule({<<>>, <<40>>, <<-40>>, <<0>>}, TRUE),
               Rule({<<>>, <<-20>>, <<20>>}, TRUE) >>
      [] a = "sentiment" ->
            << Rule({<<>>, <<70>>, <<40>>, <<10>>, <<-20>>, <<-50>>}, TRUE),
               Rule({<<>>, <<50>>, <<30>>, <<-40>>, <<0>>}, TRUE),
               Rule({<<>>, <<50>>, <<30>>, <<0>>, <<-40>>}, FALSE) >>
      [] a = "portfolio" ->
            << Rule({<<>>, <<-50>>, <<-20>>, <<10>>, <<30>>}, TRUE),
               Rule({<<>>, <<-30>>, <<30>>}, TRUE),
               Rule({<<>>, <<20>>, <<-20>>}, TRUE) >>

\* the outcome of rule i when the metric it reads is None: no score, or for
\* the two trend rules of the technical table the score of "neutral"
missing(a, i) == IF <<>> \in rules(a)[i].outcomes THEN <<>> ELSE <<0>>

\* the outcomes of the rules when every metric is None
all_missing(a) == [i \in 1..Len(rules(a)) |-> missing(a, i)]

\* the outcomes that the first i rules of a table can have together
RECURSIVE outcome_tuples(_, _)
outcome_tuples(a, i) ==
    IF i = 0 THEN {<<>>}
    ELSE {Append(t, x) : t \in outcome_tuples(a, i - 1), x \in rules(a)[i].outcomes}

\* the scores list after the first i rules
RECURSIVE scores_of(_, _)
scores_of(outcomes, i) ==
    IF i = 0 THEN <<>> ELSE scores_of(outcomes, i - 1) \o outcomes[i]

\* whether a rule appended a reason fragment
has_reasons(a, outcomes) ==
    \E i \in 1..Len(outcomes) : outcomes[i] # <<>> /\ rules(a)[i].reason

\* the signal of the `if not scores` branch of each _score
no_scores_signal(a) ==
    CASE a = "fundamental" -> SignalWithConfidence("NEUTRAL", 20, "Insufficient fundamental data")
      [] a = "technical"   -> SignalWithConfidence("NEUTRAL", 20, "Insufficient technical data")
      [] a = "options"     -> SignalWithConfidence("NEUTRAL", 30, "Limited options data")
      [] a = "macro"       -> SignalWithConfidence("NEUTRAL", 30, "Limited macro data")
      [] a = "sentiment"   -> SignalWithConfidence("NEUTRAL", 30, "Limited sentiment data")
      [] a = "portfolio"   -> SignalWithConfidence("NEUTRAL", 30, "Limited portfolio context")

\* the cap of the confidence of each _score, in hundredths
cap(a) ==
    CASE a = "fundamental" -> 90
      [] a = "technical"   -> 85
      [] a = "options"     -> 60
      [] a = "macro"       -> 70
      [] a = "sentiment"   -> 70
      [] a = "portfolio"   -> 60

\* the rule count that len(scores) is divided by; the options _score divides
\* by nothing, its table has two rules
expected_rule_count(a) ==
    CASE a = "fundamental" -> 5
      [] a = "technical"   -> 7
      [] a = "options"     -> 2
      [] a = "macro"       -> 3
      [] a = "sentiment"   -> 3
      [] a = "portfolio"   -> 3

\* round(x, 2) of a fraction of hundredths: the nearest hundredth
round2(x) == (2 * x.num + x.den) \div (2 * x.den)

\* min(cap, n / expected * cap), as a fraction of hundredths
scaled_confidence(a, n) ==
    IF n >= expected_rule_count(a) THEN Frac(cap(a), 1)
    ELSE Frac(n * cap(a), expected_rule_count(a))

\* the confidence of a _score with n scores: the options one is the constant 0.6
confidence(a, n) ==
    IF a = "options" THEN cap(a) ELSE round2(scaled_confidence(a, n))

\* "; ".join(reasons), and "Mixed signals" of the technical _score without reasons
rationale(a, outcomes) ==
    IF has_reasons(a, outcomes) THEN "reasons"
    ELSE IF a = "technical" THEN "Mixed signals" ELSE ""

\* _score of analyzer a on the metrics that give these rule outcomes
analyzer_score(a, outcomes) ==
    LET scores == scores_of(outcomes, Len(outcomes))
    IN  IF scores = <<>> THEN no_scores_signal(a)
        ELSE SignalWithConfidence(
                 from_score(Frac(SumSeq(scores, Len(scores)), Len(scores))),
                 confidence(a, Len(scores)),
                 rationale(a, outcomes))

\* the return of the analyze methods that leave before _score on an empty
\* dataset: history.empty or under 20 rows, no tickers in the chain, no holdings
early_return(a) ==
    CASE a = "technical" -> SignalWithConfidence("NEUTRAL", 20, "Insufficient price history")
      [] a = "options"   -> SignalWithConfidence("NEUTRAL", 20, "No options data")
      [] a = "portfolio" -> SignalWithConfidence("NEUTRAL", 20, "No portfolio data")
      [] OTHER           -> None

\* analyze of analyzer a; empty says that the dataset is empty
analyze(a, empty, outcomes) ==
    IF empty /\ early_return(a) # None THEN early_return(a)
    ELSE analyzer_score(a, outcomes)

\* no analyzer call
NoAnalysis == [analyzer |-> "", empty |-> FALSE, outcomes |-> <<>>]

\* one call of an analyzer; an empty dataset leaves every metric None
Analyze(a, empty, outcomes) ==
    /\ an_call = NoAnalysis
    /\ empty => outcomes = all_missing(a)
    /\ an_call' = [analyzer |-> a, empty |-> empty, outcomes |-> outcomes]
    /\ an_result' = analyze(a, empty, outcomes)
    /\ UNCHANGED <<kcifVars, up_run, procVars>>

\* the next call is made on a new dataset
NextAnalysis ==
    /\ an_call # NoAnalysis
    /\ an_call' = NoAnalysis
    /\ an_result' = None
    /\ UNCHANGED <<kcifVars, up_run, procVars>>

-----------------------------------------------------------------------------
(* skills/euro_macro/agents/kcif_agent.py.  A published_date is the number  *)
(* of days from the first day of the target month to it.                    *)

\* the queries of QUERIES, as their embeddings
KcifQueries == << <<100, 0>>, <<6, 8>> >>

\* the published dates of the reports of the store
PublishedDates == {-32, -31, 0, 62, 63}

\* date_from <= published_date <= date_to, for target - 31 days and target + 62 days
in_window(d) == d >= 0 - 31 /\ d <= 62

\* _build_date_filter: the ids of the reports published in the window, None
\* when there is none
_build_date_filter(published) ==
    LET rows == {r \in DOMAIN published : in_window(published[r])}
    IN  IF rows = {} THEN NoFilter ELSE [none |-> FALSE, ids |-> rows]

\* SearchIndex()
NewIndex == <<<<>>, <<>>, NoMatrix>>

\* the loop over the results of one query, from result i on: a finding for each
\* chunk of a report not seen yet whose score is at least 0.3
RECURSIVE add_findings(_, _, _)
add_findings(findings, results, i) ==
    IF i > Len(results) THEN findings
    ELSE LET chunk == results[i].chunk
             score == results[i].score
             seen_report_ids == {findings[n].report_id : n \in 1..Len(findings)}
         IN  IF chunk.report_id \in seen_report_ids \/ score < 3000
             THEN add_findings(findings, results, i + 1)
             ELSE add_findings(Append(findings, [report_id |-> chunk.report_id,
                                                  relevance_score |-> score]),
                               results, i + 1)

\* the loop over QUERIES, from query n on; orders[n] is the order that argsort
\* returns in the search of query n
RECURSIVE query_loop(_, _, _, _, _)
query_loop(findings, index, report_filter, orders, n) ==
    IF n > Len(KcifQueries) THEN findings
    ELSE query_loop(add_findings(findings,
                                 search(index, KcifQueries[n], 5, report_filter, orders[n]),
                                 1),
                    index, report_filter, orders, n + 1)

\* the orders that argsort can return in the searches of the queries
query_orders(index, report_filter) ==
    IF index[3] = NoMatrix THEN {<<>>}
    ELSE LET sorts == [n \in 1..Len(KcifQueries) |->
                          argsort(masked_scores(index, KcifQueries[n], report_filter))]
         IN  {os \in [1..Len(KcifQueries) -> UNION {sorts[n] : n \in 1..Len(KcifQueries)}] :
                 \A n \in 1..Len(KcifQueries) : os[n] \in sorts[n]}

\* no AgentResult yet
NoResult == [done |-> FALSE, error |-> "", findings |-> <<>>]

\* KCIFAgent._search on the store with these chunk rows and published dates
_search(rows, published, orders) ==
    LET index == build(NewIndex, get_all_embedded_chunks(rows))
    IN  IF size(index[1]) = 0
        THEN [done |-> TRUE, error |-> "No embedded documents in KCIF database",
              findings |-> <<>>]
        ELSE [done |-> TRUE, error |-> "",
              findings |-> query_loop(<<>>, index, _build_date_filter(published), orders, 1)]

\* KCIFAgent.research(year, month)
Research ==
    /\ ~kc_result.done
    /\ \E orders \in query_orders(build(NewIndex, get_all_embedded_chunks(db_chunks)),
                                  _build_date_filter(kc_published)) :
          kc_result' = _search(db_chunks, kc_published, orders)
    /\ UNCHANGED <<kc_published, analyzerVars, up_run, procVars>>

\* the chunk rows of a store: each key absent or stored with or without embedding
KcifStores ==
    {S \in SUBSET ChunkRows : \A a, b \in S : SameKey(a, b) => a = b}

-----------------------------------------------------------------------------
(* cli.py _run_update *)

\* the id of the source that the update command scrapes
KcifSource == CHOOSE id \in SourceIds : \A o \in SourceIds : id <= o

\* the listings that scrape_listing returns: up to two ScraperResult
ScrapeResults ==
    LET one == [external_id : ExternalIds, title : Titles]
    IN  {<<>>} \cup {<<r>> : r \in one} \cup {<<r, q>> : r \in one, q \in one}

\* what the download of a pending report ends in
DownloadOutcomes == {"downloaded", "restricted", "failed"}

\* the loop over the scraped results, from result i on: the rows of the reports
\* table and new_count
RECURSIVE catalog(_, _, _, _)
catalog(rows, new_count, results, i) ==
    IF i > Len(results) THEN [rows |-> rows, new_count |-> new_count]
    ELSE LET report == [source_id |-> KcifSource,
                        external_id |-> results[i].external_id,
                        title |-> results[i].title,
                        download_status |-> "pending"]
             out == upsert_report(rows, report)
         IN  catalog(out.rows,
                     IF out.id # 0 /\ report.download_status = "pending"
                     THEN new_count + 1 ELSE new_count,
                     results, i + 1)

\* the download loop over the pending reports of the source: each download
\* ends as outcome says
download_pending(rows, outcome) ==
    {IF x.source_id = KcifSource /\ x.download_status = "pending"
     THEN [x EXCEPT !.download_status = outcome[x.id]] ELSE x : x \in rows}

\* no run of the update command yet
NoUpdate == [done |-> FALSE, results |-> <<>>, before |-> {}, new_count |-> 0]

\* the update command; metadata_only is --metadata-only
RunUpdate(results, metadata_only, outcome) ==
    LET out == catalog(reports, 0, results, 1)
    IN  /\ reports' = IF metadata_only THEN out.rows
                      ELSE download_pending(out.rows, outcome)
        /\ up_run' = [done |-> TRUE, results |-> results, before |-> reports,
                      new_count |-> out.new_count]
        /\ UNCHANGED <<upsert_call, upsert_before, upsert_id>>
        /\ UNCHANGED <<analyzerVars, kcifVars, procVars>>

-----------------------------------------------------------------------------
(* Specifications *)

AggInit ==
    /\ base_weights \in WeightConfigs
    /\ signals = [k \in DimKeys |-> None]
    /\ dimension_results = <<>>
    /\ overall_signal = "NEUTRAL"
    /\ overall_confidence = 0
    /\ overall_score = 0
    /\ summary = <<>>
    /\ weighted_score = Frac(0, 1)
    /\ aggregated = FALSE
    /\ agg_signals = [k \in DimKeys |-> None]
    /\ nsets = 0

ChunkInit ==
    /\ doc = <<>>
    /\ budget \in Budgets
    /\ pages = <<>>
    /\ full_text = <<>>
    /\ chunks = <<>>
    /\ pc = "file"
    /\ npieces = 0

IndexInit ==
    /\ db_chunks = {}
    /\ idx_chunks = <<>>
    /\ idx_report_ids = <<>>
    /\ idx_embeddings = NoMatrix
    /\ search_call = NoCall
    /\ search_results = <<>>
    /\ built = FALSE
    /\ ninserts = 0

PipeInit ==
    /\ rep_processing = [r \in 1..MaxReports |-> "unprocessed"]
    /\ rep_download = [r \in 1..MaxReports |-> "pending"]
    /\ cost_limit = 0
    /\ batch = <<>>
    /\ batch_pos = 1
    /\ total_cost = 0
    /\ run = "idle"
    /\ faulted = {}

DbInit ==
    /\ reports = {}
    /\ upsert_call = NoUpsert
    /\ upsert_before = {}
    /\ upsert_id = 0

RunInit ==
    /\ fetched = [f \in Fetches |-> TRUE]
    /\ run_pc = "start"

CommonInit ==
    /\ swc = None
    /\ swc_error = FALSE
    /\ fs_last = NoScore

AnalyzerInit ==
    /\ an_call = NoAnalysis
    /\ an_result = None

KcifInit ==
    /\ kc_published = [r \in ReportIds |-> 0]
    /\ kc_result = NoResult

UpdateInit == up_run = NoUpdate

ProcInit ==
    /\ embedder = model_name("local")
    /\ last_pass = NoPass

ExtraInit == AnalyzerInit /\ KcifInit /\ UpdateInit /\ ProcInit

\* the variables that each specification leaves alone
notAgg == <<chunkVars, indexVars, pipeVars, dbVars, runVars, commonVars,
            extraVars>>

notChunk == <<aggVars, indexVars, pipeVars, dbVars, runVars, commonVars,
            extraVars>>

notIndex == <<aggVars, chunkVars, pipeVars, dbVars, runVars, commonVars,
            extraVars>>

notPipe == <<aggVars, chunkVars, indexVars, dbVars, runVars, commonVars,
            extraVars>>

notDb == <<aggVars, chunkVars, indexVars, pipeVars, runVars, commonVars,
            extraVars>>

notRun == <<chunkVars, indexVars, pipeVars, dbVars, commonVars,
            extraVars>>

notCommon == <<aggVars, chunkVars, indexVars, pipeVars, dbVars, runVars,
            extraVars>>

\* the state of the parts that a specification leaves alone
RestInit ==
    /\ AggInit /\ base_weights = DEFAULT_WEIGHTS
    /\ ChunkInit /\ budget.max_tokens = 1
    /\ RunInit
    /\ CommonInit
    /\ ExtraInit

\* one report under aggregation; no file is processed
Init ==
    /\ AggInit /\ ChunkInit /\ budget.max_tokens = 1
    /\ IndexInit /\ PipeInit /\ DbInit /\ RunInit /\ CommonInit /\ ExtraInit

Next ==
    \/ (\E key \in DimKeys, v \in SignalInputs \cup {None} : SetSignal(key, v))
         /\ UNCHANGED notAgg
    \/ aggregate /\ UNCHANGED notAgg

Spec == Init /\ [][Next]_vars

\* one file through extraction and chunking; no report is aggregated
ChunkSpecInit ==
    /\ ChunkInit /\ AggInit /\ base_weights = DEFAULT_WEIGHTS
    /\ IndexInit /\ PipeInit /\ DbInit /\ RunInit /\ CommonInit /\ ExtraInit

ChunkNext ==
    \/ NewPage /\ UNCHANGED notChunk
    \/ (\E p \in Pieces : TypePiece(p)) /\ UNCHANGED notChunk
    \/ Extract /\ UNCHANGED notChunk
    \/ Chunk /\ UNCHANGED notChunk

ChunkSpec == ChunkSpecInit /\ [][ChunkNext]_vars

\* one file with column text through extraction and chunking
TableNext ==
    \/ NewPage /\ UNCHANGED notChunk
    \/ (\E p \in TablePieces : TypePiece(p)) /\ UNCHANGED notChunk
    \/ Extract /\ UNCHANGED notChunk
    \/ Chunk /\ UNCHANGED notChunk

TableSpec == ChunkSpecInit /\ [][TableNext]_vars

\* one store of chunks and one search index over it
IndexSpecInit == IndexInit /\ RestInit /\ PipeInit /\ DbInit

IndexNext ==
    \/ (\E c \in ChunkRows : InsertChunks(<<c>>)) /\ UNCHANGED notIndex
    \/ Build /\ UNCHANGED notIndex
    \/ (\E q \in Queries, top_k \in 0..MaxTopK, f \in Filters : Search(q, top_k, f))
         /\ UNCHANGED notIndex

IndexSpec == IndexSpecInit /\ [][IndexNext]_vars

\* one catalog of downloaded reports under the process command
PipeSpecInit == PipeInit /\ RestInit /\ IndexInit /\ DbInit

PipeNext ==
    \/ (\E r \in 1..MaxReports : Download(r)) /\ UNCHANGED notPipe
    \/ (\E limit \in CostLimits : StartProcess(limit)) /\ UNCHANGED notPipe
    \/ (\E fault \in Faults, cost \in Costs : ProcessReport(fault, cost))
         /\ UNCHANGED notPipe
    \/ FinishProcess /\ UNCHANGED notPipe

PipeSpec == PipeSpecInit /\ [][PipeNext]_vars

\* one reports table under upsert_report and update_report_download
DbSpecInit == DbInit /\ RestInit /\ IndexInit /\ PipeInit

DbNext ==
    \/ (\E report \in ReportInputs : UpsertReport(report)) /\ UNCHANGED notDb
    \/ (\E id \in 1..Cardinality(reports) : UpdateReportDownload(id))
         /\ UNCHANGED notDb

DbSpec == DbSpecInit /\ [][DbNext]_vars

\* one run of run_analysis under the default weights
RunSpecInit ==
    /\ AggInit /\ base_weights = DEFAULT_WEIGHTS /\ RunInit
    /\ ChunkInit /\ budget.max_tokens = 1
    /\ IndexInit /\ PipeInit /\ DbInit /\ CommonInit /\ ExtraInit

RunNext ==
    \/ (\E ok \in [Fetches -> BOOLEAN], out \in [DimKeys -> AnalyzerOutputs] :
            FetchAndAnalyze(ok, out)) /\ UNCHANGED notRun
    \/ RunAggregate /\ UNCHANGED notRun

RunSpec == RunSpecInit /\ [][RunNext]_vars

\* one SignalWithConfidence object
SwcSpecInit == RestInit /\ IndexInit /\ PipeInit /\ DbInit

SwcNext ==
    \/ (\E s \in Signal, c \in ConfidenceInputs : Construct(s, c))
         /\ UNCHANGED notCommon
    \/ (\E c \in ConfidenceInputs : AssignConfidence(c)) /\ UNCHANGED notCommon

SwcSpec == SwcSpecInit /\ [][SwcNext]_vars

\* Signal.from_score on the scores of ScoreInputs and on the seven numerics
ScoreSpecInit == RestInit /\ IndexInit /\ PipeInit /\ DbInit

ScoreNext ==
    \/ (\E x \in ScoreInputs : FromScore(x)) /\ UNCHANGED notCommon
    \/ (\E s \in Signal : FromNumeric(s)) /\ UNCHANGED notCommon

ScoreSpec == ScoreSpecInit /\ [][ScoreNext]_vars

\* the six analyzers, one call at a time
notAnalyzer == <<aggVars, chunkVars, indexVars, pipeVars, dbVars, runVars, commonVars>>

AnalyzerSpecInit ==
    RestInit /\ IndexInit /\ PipeInit /\ DbInit

AnalyzerNext ==
    \/ (an_call = NoAnalysis /\ \E a \in Analyzers, e \in BOOLEAN :
            \E o \in outcome_tuples(a, Len(rules(a))) : Analyze(a, e, o))
         /\ UNCHANGED notAnalyzer
    \/ NextAnalysis /\ UNCHANGED notAnalyzer

AnalyzerSpec == AnalyzerSpecInit /\ [][AnalyzerNext]_vars

\* one run of the KCIF agent on a store of reports and chunks
notKcif == <<aggVars, chunkVars, indexVars, pipeVars, dbVars, runVars, commonVars>>

KcifSpecInit ==
    /\ AggInit /\ base_weights = DEFAULT_WEIGHTS
    /\ ChunkInit /\ budget.max_tokens = 1
    /\ RunInit /\ CommonInit /\ PipeInit /\ DbInit /\ AnalyzerInit /\ UpdateInit
    /\ ProcInit
    /\ db_chunks \in KcifStores
    /\ idx_chunks = <<>> /\ idx_report_ids = <<>> /\ idx_embeddings = NoMatrix
    /\ search_call = NoCall /\ search_results = <<>> /\ built = FALSE /\ ninserts = 0
    /\ kc_published \in [ReportIds -> PublishedDates]
    /\ kc_result = NoResult

KcifNext == Research /\ UNCHANGED notKcif

KcifSpec == KcifSpecInit /\ [][KcifNext]_vars

\* the process command on one catalog, with the chunks table
notProc == <<aggVars, chunkVars, idx_chunks, idx_report_ids, idx_embeddings,
             search_call, search_results, built, ninserts, dbVars, runVars,
             commonVars, analyzerVars, kcifVars, up_run>>

ProcSpecInit ==
    /\ RestInit /\ PipeInit /\ DbInit
    /\ db_chunks \in LeftoverStores
    /\ idx_chunks = <<>> /\ idx_report_ids = <<>> /\ idx_embeddings = NoMatrix
    /\ search_call = NoCall /\ search_results = <<>> /\ built = FALSE /\ ninserts = 0

ProcNext ==
    \/ (\E r \in 1..MaxReports : Download(r))
         /\ UNCHANGED <<db_chunks, procVars>> /\ UNCHANGED notProc
    \/ (\E provider \in Providers, limit \in CostLimits : RunProcess(provider, limit))
         /\ UNCHANGED notProc
    \/ (\E fault \in Faults, cost \in Costs, contents \in ContentLists :
            ProcessPass(fault, cost, contents))
         /\ UNCHANGED notProc
    \/ FinishProcess /\ UNCHANGED <<db_chunks, procVars>> /\ UNCHANGED notProc

ProcSpec == ProcSpecInit /\ [][ProcNext]_vars

\* runs of the update command on one catalog
notUpdate == <<aggVars, chunkVars, indexVars, pipeVars, runVars, commonVars>>

UpdateSpecInit == RestInit /\ IndexInit /\ PipeInit /\ DbInit

UpdateNext ==
    (\E results \in ScrapeResults, metadata_only \in BOOLEAN,
        outcome \in [1..Cardinality(ExternalIds) -> DownloadOutcomes] :
        RunUpdate(results, metadata_only, outcome)) /\ UNCHANGED notUpdate

UpdateSpec == UpdateSpecInit /\ [][UpdateNext]_vars

-----------------------------------------------------------------------------
(* Properties of the aggregator, checked under Spec *)

\* the key of the dimension with a display name
KeyOf(name) == dimensions[CHOOSE i \in 1..Len(dimensions) : dimensions[i].name = name].key

\* the entries of dimension_results marked available
AvailableEntries == SelectSeq(dimension_results, LAMBDA d : d.available)

RECURSIVE FracSum(_, _)
FracSum(fs, i) == IF i = 0 THEN Frac(0, 1) ELSE FracAdd(FracSum(fs, i - 1), fs[i])

\* the sum of the weights of the available entries
AvailableWeightSum ==
    FracSum([i \in 1..Len(AvailableEntries) |-> AvailableEntries[i].weight],
            Len(AvailableEntries))

\* the sum of the configured base weights of the available entries
AvailableBaseTotal ==
    SumSeq([i \in 1..Len(AvailableEntries) |->
               get(base_weights, KeyOf(AvailableEntries[i].name))],
           Len(AvailableEntries))

IsOne(f) == f.num = f.den

\* the last aggregate call saw at least one signal
LastCallFull == aggregated /\ available(agg_signals) # <<>>

\* the last aggregate call saw no signal
LastCallEmpty == aggregated /\ available(agg_signals) = <<>>

\* C1, as stated: for every weight configuration, the weights of the results
\* marked available sum to 1.0 after aggregate.
C1_AsStated == dimension_results # <<>> => IsOne(AvailableWeightSum)

\* C1, amended: when the base weights of the available dimensions sum to more
\* than 0, the weights of the results marked available sum to 1.0, and a single
\* available dimension has weight 1.0.
C1_WeightsSumToOne ==
    (dimension_results # <<>> /\ AvailableBaseTotal > 0) =>
        /\ IsOne(AvailableWeightSum)
        /\ Len(AvailableEntries) = 1 => IsOne(AvailableEntries[1].weight)

C1_Witness ==
    /\ base_weights = TwoKeyWeights
    /\ Len(AvailableEntries) = 2
    /\ AvailableBaseTotal > 0
    /\ AvailableEntries[1].weight = Frac(89, 226)

\* the report of the scenario: fundamental = BUY (0.8), technical = SELL (0.7)
C2_Signals ==
    [k \in DimKeys |->
        IF k = "fundamental" THEN SignalWithConfidence("BUY", 80, "")
        ELSE IF k = "technical" THEN SignalWithConfidence("SELL", 70, "")
        ELSE None]

C2_Scenario == aggregated /\ agg_signals = C2_Signals /\ base_weights = DEFAULT_WEIGHTS

\* C2, as stated: the scenario yields overall_score 0.067 and NEUTRAL.
C2_AsStated == C2_Scenario => (overall_score = 670 /\ overall_signal = "NEUTRAL")

\* C2, amended: the scenario yields overall_score 0.134 and NEUTRAL.
C2_ScenarioScore == C2_Scenario => (overall_score = 1340 /\ overall_signal = "NEUTRAL")

C2_Witness == C2_Scenario /\ signals = agg_signals /\ Len(dimension_results) = 6

\* C3, as stated: after aggregate with an available dimension, overall_signal
\* is the bucket of the stored, rounded overall_score.
C3_SignalIsBucketOfStoredScore ==
    LastCallFull => overall_signal = from_score(Frac(overall_score, 100))

\* C4: when the last aggregate call saw no signal, the report holds NEUTRAL,
\* confidence 0, score 0 and the fixed summary.
C4_NoDimensions ==
    LastCallEmpty =>
        /\ overall_signal = "NEUTRAL"
        /\ overall_confidence = 0
        /\ overall_score = 0
        /\ summary = NoAnalysisSummary

\* an empty call that follows a full one
C4_Witness == LastCallEmpty /\ dimension_results # <<>> /\ base_weights = TwoKeyWeights

\* the entries of dimension_results that carry the name of dimension i
EntriesOf(i) == SelectSeq(dimension_results, LAMBDA d : d.name = dimensions[i].name)

\* C5: after aggregate with an available dimension, dimension_results holds one
\* entry per dimension; an unavailable one carries its base weight, NEUTRAL with
\* confidence 0 and available = FALSE, an available one its signal and TRUE.
C5_SixEntries ==
    LastCallFull =>
        /\ Len(dimension_results) = Len(dimensions)
        /\ \A i \in 1..Len(dimensions) :
            /\ Len(EntriesOf(i)) = 1
            /\ LET e == EntriesOf(i)[1]
                   key == dimensions[i].key
               IN IF agg_signals[key] = None
                  THEN /\ e.weight = Frac(get(base_weights, key), 100)
                       /\ e.signal.signal = "NEUTRAL"
                       /\ e.signal.confidence = 0
                       /\ ~e.available
                  ELSE /\ e.signal = agg_signals[key]
                       /\ e.available

C5_Witness ==
    /\ LastCallFull
    /\ Len(available(agg_signals)) = 2
    /\ agg_signals["macro"] # None
    /\ agg_signals["fundamental"] = None

-----------------------------------------------------------------------------
(* Properties of the chunker, checked under ChunkSpec *)

\* the characters of a text that are not whitespace, in order
NoSpace(text) == SelectSeq(text, LAMBDA c : ~IsSpace(c))

\* the contents of the first n chunks, concatenated in list order
RECURSIVE ConcatContents(_, _)
ConcatContents(chs, n) ==
    IF n = 0 THEN <<>> ELSE ConcatContents(chs, n - 1) \o chs[n].content

\* the chunks before the trailing merge
Unmerged == BuildChunks(full_text, pages, budget.max_tokens)

\* the trailing merge removed a chunk
TrailingMerged == chunks # Unmerged

\* C6: the contents of the chunks, concatenated in order and with whitespace
\* ignored, are the text that was chunked.
C6_ContentPreserved ==
    pc = "chunked" => NoSpace(ConcatContents(chunks, Len(chunks))) = NoSpace(full_text)

\* three paragraphs, the second force-split by sentence
C6_Witness ==
    /\ pc = "chunked"
    /\ Len(paragraphs_of(full_text)) = 3
    /\ TooLarge(estimate_tokens(paragraphs_of(full_text)[2]), budget.max_tokens)
    /\ Len(SplitSentences(paragraphs_of(full_text)[2], 1, 1)) = 2
    /\ Len(chunks) = 4

\* C7: every chunk has at most max_tokens estimated tokens, except a final
\* chunk produced by the trailing merge, which has at most 1.5 * max_tokens.
C7_TokenBound ==
    pc = "chunked" =>
        \A i \in 1..Len(chunks) :
            IF i = Len(chunks) /\ TrailingMerged
            THEN 2 * estimate_tokens(chunks[i].content) <= 3 * budget.max_tokens
            ELSE estimate_tokens(chunks[i].content) <= budget.max_tokens

\* C8: chunk_index is the position in the list, counted from 0, and an empty
\* text gives no chunk.
C8_IndicesContiguous ==
    pc = "chunked" =>
        /\ \A i \in 1..Len(chunks) : chunks[i].chunk_index = i - 1
        /\ full_text = <<>> => chunks = <<>>

\* the trailing merge removed the third of three chunks
C8_Witness == pc = "chunked" /\ TrailingMerged /\ Len(chunks) = 2

\* a one-page document without a blank line
OnePageNoBreak ==
    /\ pc = "chunked"
    /\ Len(pages) = 1
    /\ Len(SplitParagraphs(full_text, 1, 1)) = 1

\* C9, as stated: one page without paragraph break gives exactly one chunk,
\* whatever the length and the budgets.
C9_AsStated == OnePageNoBreak => Len(chunks) = 1

\* C9, amended: one non-blank page without paragraph break whose stripped text
\* is estimated at no more than max_tokens gives exactly one chunk.
C9_OneChunkWhenWithinMax ==
    (OnePageNoBreak /\ estimate_tokens(strip(full_text)) <= budget.max_tokens) =>
        Len(chunks) = 1

\* a page of two lines that is exactly max_tokens long
C9_Witness ==
    /\ OnePageNoBreak
    /\ estimate_tokens(strip(full_text)) = budget.max_tokens
    /\ Len(SplitLines(strip(full_text), 1, 1)) = 2
    /\ Len(chunks) = 1

\* the offset in the text where pages[i] starts
RECURSIVE PageStartOffset(_, _)
PageStartOffset(pgs, i) ==
    IF i = 1 THEN 0 ELSE PageStartOffset(pgs, i - 1) + Len(pgs[i - 1]) + 2

\* the 1-indexed page whose text holds position pos of "\n\n".join(pgs)
PageOfPosition(pgs, pos) ==
    CHOOSE i \in 1..Len(pgs) :
        PageStartOffset(pgs, i) < pos /\ pos <= PageStartOffset(pgs, i) + Len(pgs[i])

\* the position in text of its n-th character that is not whitespace
PositionOfSolid(text, n) ==
    CHOOSE pos \in 1..Len(text) :
        ~IsSpace(text[pos]) /\ Len(NoSpace(SubSeq(text, 1, pos))) = n

\* the number of characters that are not whitespace in the first n chunks
SolidBefore(chs, n) == Len(NoSpace(ConcatContents(chs, n)))

\* C10: page_start and page_end of a chunk are the pages that hold its first
\* and its last character in the full text; with no page both are None.
C10_PageRange ==
    pc = "chunked" =>
        \A i \in 1..Len(chunks) :
            IF pages = <<>>
            THEN chunks[i].page_start = NonePage /\ chunks[i].page_end = NonePage
            ELSE SolidBefore(chunks, i) > SolidBefore(chunks, i - 1) =>
                 /\ chunks[i].page_start =
                      PageOfPosition(pages, PositionOfSolid(full_text, SolidBefore(chunks, i - 1) + 1))
                 /\ chunks[i].page_end =
                      PageOfPosition(pages, PositionOfSolid(full_text, SolidBefore(chunks, i)))
                 /\ 1 <= chunks[i].page_start
                 /\ chunks[i].page_start <= chunks[i].page_end
                 /\ chunks[i].page_end <= Len(pages)

-----------------------------------------------------------------------------
(* Properties of the search index, checked under IndexSpec *)

\* the positions of the index that pass the filter of the last search
Eligible ==
    {i \in 1..Len(idx_chunks) :
        \/ search_call.report_id_filter.none
        \/ idx_report_ids[i] \in search_call.report_id_filter.ids}

\* the cosine of the chunk at position i with the query of the last search
ScoreAt(i) == Dot(idx_embeddings[i], query_norm(search_call.query))

\* the positions of the index that the last search returned, in result order
Returned(n) ==
    CHOOSE i \in 1..Len(idx_chunks) : idx_chunks[i] = search_results[n].chunk

\* C11: a search with a report_id filter returns no chunk whose report_id is
\* outside the filter set, and with the empty filter set it returns nothing.
C11_FilterRespected ==
    (search_call.called /\ ~search_call.report_id_filter.none) =>
        /\ \A n \in 1..Len(search_results) :
              search_results[n].chunk.report_id \in search_call.report_id_filter.ids
        /\ (search_call.report_id_filter.ids = {} => search_results = <<>>)

\* a search filtered to report 2, of an index that also holds a chunk of
\* report 1 and was asked for more than it could return
C11_Witness ==
    /\ search_call.called
    /\ search_call.report_id_filter = [none |-> FALSE, ids |-> {2}]
    /\ \E i \in 1..Len(idx_chunks) : idx_report_ids[i] = 1
    /\ search_call.top_k >= 2
    /\ Len(search_results) = 1

\* the count, the order and the choice of the results of the last search
TopKResults ==
    /\ Len(search_results) = Min(search_call.top_k, Cardinality(Eligible))
    /\ \A n \in 1..Len(search_results) :
          /\ \E i \in Eligible : idx_chunks[i] = search_results[n].chunk
          /\ search_results[n].score = ScoreAt(Returned(n))
    /\ \A m, n \in 1..Len(search_results) : m # n => Returned(m) # Returned(n)
    /\ \A n \in 1..(Len(search_results) - 1) :
          search_results[n].score >= search_results[n + 1].score
    /\ \A i \in Eligible :
          (\A n \in 1..Len(search_results) : Returned(n) # i) =>
              \A n \in 1..Len(search_results) : search_results[n].score >= ScoreAt(i)

\* the eligible positions whose stored vector is the normalized query
Exact ==
    {i \in Eligible : idx_embeddings[i] = query_norm(search_call.query)}

\* C12 as stated: the results are the min(top_k, eligible) best eligible chunks
\* in non-increasing score order, and every eligible chunk whose stored vector
\* equals the normalized query is the first result, with score 1.
C12_AsStated ==
    (search_call.called /\ size(idx_chunks) > 0) =>
        /\ TopKResults
        /\ search_call.top_k >= 1 =>
              \A i \in Exact :
                  /\ search_results[1].chunk = idx_chunks[i]
                  /\ search_results[1].score = 10000

\* C12: the results are the min(top_k, eligible) best eligible chunks in
\* non-increasing score order, and when an eligible chunk's stored vector
\* equals the normalized query the first result is such a chunk, with score 1.
C12_TopK ==
    (search_call.called /\ size(idx_chunks) > 0) =>
        /\ TopKResults
        /\ (search_call.top_k >= 1 /\ Exact # {}) =>
              /\ Returned(1) \in Exact
              /\ search_results[1].score = 10000

\* a search for the best one of two eligible chunks, one of which is the query
C12_Witness ==
    /\ search_call.called
    /\ search_call.top_k = 1
    /\ Cardinality(Eligible) = 2
    /\ Cardinality(Exact) = 1
    /\ Len(search_results) = 1
    /\ search_results[1].score = 10000

\* C13: once build has returned, the index holds exactly the embedded chunks of
\* the store in ascending (report_id, chunk_index) order, with report_ids and
\* embeddings aligned, also when the store has no embedded chunk left.
C13_IndexMatchesStore ==
    built =>
        /\ \A r \in db_chunks :
              r.embedding # NoEmbedding =>
                  \E i \in 1..Len(idx_chunks) :
                      SameKey(idx_chunks[i], r) /\ idx_embeddings[i] = r.embedding
        /\ \A i \in 1..Len(idx_chunks) :
              /\ \E r \in db_chunks :
                    /\ SameKey(idx_chunks[i], r)
                    /\ r.embedding # NoEmbedding
                    /\ idx_embeddings[i] = r.embedding
              /\ idx_report_ids[i] = idx_chunks[i].report_id
              /\ i > 1 => KeyBefore(idx_chunks[i - 1], idx_chunks[i])
        /\ Len(idx_report_ids) = Len(idx_chunks)
        /\ idx_chunks # <<>> => Len(idx_embeddings) = Len(idx_chunks)

\* C14: an index that holds no chunks returns the empty list for every query,
\* top_k and filter, and raises nothing.
C14_EmptyIndex ==
    (search_call.called /\ size(idx_chunks) = 0) => search_results = <<>>

\* a search for something of an index built from a store whose only chunks have
\* no embedding
C14_Witness ==
    /\ search_call.called
    /\ built
    /\ db_chunks # {}
    /\ size(idx_chunks) = 0
    /\ search_call.top_k >= 1
    /\ search_call.report_id_filter.none

-----------------------------------------------------------------------------
(* Properties of process_reports, checked under PipeSpec *)

\* C15: a report of the batch that had a stage fail (file lookup, extraction or
\* re-extraction, chunking, embedding) has processing_status failed, and no
\* such failure stops the loop.
C15_StageFailureMarksFailed ==
    /\ \A r \in faulted : rep_processing[r] = "failed"
    /\ run # "raised"

\* C16: with a cost limit above 0 the total embedding cost of one run never
\* exceeds the limit, and with limit 0 the run is never halted for cost.
C16_CostWithinLimit ==
    /\ cost_limit > 0 => total_cost <= cost_limit
    /\ cost_limit = 0 => run # "halted"

-----------------------------------------------------------------------------
(* Properties of the reports table, checked under DbSpec *)

\* the rows that had the key of the last upsert_report call when it was made
ExistingBefore == existing_rows(upsert_before, upsert_call)

\* C20: upsert_report of a Report whose (source_id, external_id) is already
\* stored returns the stored row's id, inserts no row and leaves the stored row
\* as it was; the table never holds two rows with one (source_id, external_id).
C20_UpsertKeepsExisting ==
    /\ (upsert_call.called /\ ExistingBefore # {}) =>
          /\ \A x \in ExistingBefore : upsert_id = x.id
          /\ reports = upsert_before
    /\ \A x, y \in reports :
          (x.source_id = y.source_id /\ x.external_id = y.external_id) => x = y

\* an upsert_report of a stored, downloaded report under another title
C20_Witness ==
    /\ upsert_call.called
    /\ \E x \in ExistingBefore :
          /\ x.title # upsert_call.title
          /\ x.download_status = "downloaded"
          /\ x.id = 2

-----------------------------------------------------------------------------
(* Properties of run_analysis, checked under RunSpec *)

\* the entry of dimension_results for the dimension key
ResultOf(key) ==
    CHOOSE r \in {dimension_results[i] : i \in 1..Len(dimension_results)} :
        r.name = dimensions[CHOOSE i \in 1..Len(dimensions) : dimensions[i].key = key].name

\* the dimensions whose fetch failed in the run
Failed == {key \in DimKeys : no_data(key, fetched)}

\* the dimensions whose analyzer run_analysis always runs
AlwaysAnalyzed == {"fundamental", "technical", "macro", "sentiment"}

-----------------------------------------------------------------------------
(* Properties of models/common.py, checked under SwcSpec and ScoreSpec *)

\* C18: a SignalWithConfidence never holds a confidence below 0 or above 1,
\* whatever was supplied at construction or assigned later.
C18_ConfidenceInRange ==
    swc # None => (swc.confidence >= 0 /\ swc.confidence <= 100)

\* the seven signals from the lowest to the highest
SignalOrder ==
    <<"STRONG SELL", "SELL", "LEAN SELL", "NEUTRAL", "LEAN BUY", "BUY", "STRONG BUY">>

Rank(s) == CHOOSE i \in 1..Len(SignalOrder) : SignalOrder[i] = s

\* the result of the last from_score call is the bucket of the fixed cutoffs
\* and, for the numeric of a signal, that signal
CutoffBucket ==
    fs_last.called =>
        /\ (fs_last.result = "STRONG BUY") <=> (fs_last.score >= 80)
        /\ (fs_last.result = "BUY") <=> (fs_last.score >= 50 /\ fs_last.score < 80)
        /\ (fs_last.result = "LEAN BUY") <=> (fs_last.score >= 20 /\ fs_last.score < 50)
        /\ (fs_last.result = "NEUTRAL") <=> (fs_last.score >= -20 /\ fs_last.score < 20)
        /\ (fs_last.result = "LEAN SELL") <=> (fs_last.score >= -50 /\ fs_last.score < -20)
        /\ (fs_last.result = "SELL") <=> (fs_last.score >= -80 /\ fs_last.score < -50)
        /\ (fs_last.result = "STRONG SELL") <=> (fs_last.score < -80)
        /\ fs_last.of # "" => fs_last.result = fs_last.of

\* of two calls in a row, the one with the higher score has no lower result
MonotoneStep ==
    (fs_last.called /\ fs_last.score <= fs_last'.score) =>
        Rank(fs_last.result) <= Rank(fs_last'.result)

\* C19: from_score returns the bucket of the fixed cutoffs, is monotone
\* non-decreasing in the score, and from_score(s.numeric) is s for each signal.
C19_FromScore == []CutoffBucket /\ [][MonotoneStep]_vars

\* from_score(LEAN_SELL.numeric)
C19_Witness ==
    /\ fs_last.called
    /\ fs_last.of = "LEAN SELL"
    /\ fs_last.score = -33
    /\ fs_last.result = "LEAN SELL"

-----------------------------------------------------------------------------
(* Properties of the analyzers, checked under AnalyzerSpec *)

\* the last call found every metric None, so no rule was triggered
NoInputs == an_call # NoAnalysis /\ an_call.outcomes = all_missing(an_call.analyzer)

\* the rationales that say that the data was insufficient
InsufficientData ==
    {no_scores_signal(a).rationale : a \in Analyzers}
        \cup {early_return(a).rationale : a \in {"technical", "options", "portfolio"}}

\* C21: an analyzer whose inputs are all missing returns NEUTRAL with a fixed
\* low confidence (0.2 or 0.3) and an insufficient-data rationale.
C21_NoInputsNeutral ==
    NoInputs =>
        /\ an_result # None
        /\ an_result.signal = "NEUTRAL"
        /\ an_result.confidence \in {20, 30}
        /\ an_result.rationale \in InsufficientData

\* the number of scores of the last call
Triggered == Len(scores_of(an_call.outcomes, Len(an_call.outcomes)))

\* C22: whenever at least one rule triggers, the confidence is
\* min(cap, triggered / expected * cap), read to the two decimals the analyzers
\* round it to, and so never above the cap.
C22_Confidence ==
    (an_call # NoAnalysis /\ ~an_call.empty /\ Triggered >= 1) =>
        /\ an_result.confidence = round2(scaled_confidence(an_call.analyzer, Triggered))
        /\ an_result.confidence <= cap(an_call.analyzer)

-----------------------------------------------------------------------------
(* Properties of the summary, checked under Spec *)

\* the names, in the order of the dimensions list, of the dimensions that were
\* available at the last aggregate call with a signal numeric in the set ns
NamedWith(ns) ==
    names_of(SelectSeq(dimensions,
                       LAMBDA d : /\ agg_signals[d.key] # None
                                  /\ numeric(agg_signals[d.key].signal) \in ns))

\* the summary that C23 describes for the signals of the last aggregate call
SummaryOf ==
    LET bull == NamedWith(21..100)
        bear == NamedWith(-100..-21)
    IN <<[clause |-> "verdict", signal |-> overall_signal]>>
       \o (IF bull # <<>> THEN <<[clause |-> "Bullish signals from", names |-> bull]>> ELSE <<>>)
       \o (IF bear # <<>> THEN <<[clause |-> "Bearish signals from", names |-> bear]>> ELSE <<>>)
       \o (IF \A k \in DimKeys : agg_signals[k] # None => agg_signals[k].signal = "NEUTRAL"
           THEN <<[clause |-> "Mixed or neutral signals across all dimensions."]>> ELSE <<>>)

\* C23: after an aggregate call that found a dimension available, the summary
\* is the verdict, then the Bullish clause naming exactly the available
\* dimensions above +0.2, then the Bearish clause naming exactly those below
\* -0.2, then the Mixed clause iff every available signal is NEUTRAL; no
\* unavailable dimension is named.
C23_Summary == LastCallFull => summary = SummaryOf

\* a call with one bullish and one bearish dimension, the four others missing
C23_Witness ==
    /\ LastCallFull
    /\ Len(summary) = 3
    /\ summary[2].clause = "Bullish signals from" /\ Len(summary[2].names) = 1
    /\ summary[3].clause = "Bearish signals from" /\ Len(summary[3].names) = 1
    /\ Len(SelectSeq(dimension_results, LAMBDA d : ~d.available)) = 4

-----------------------------------------------------------------------------
(* Properties of the trailing merge, checked under ChunkSpec *)

\* the text of the two last chunks of un, joined by a blank line
MergedText(un) ==
    un[Len(un) - 1].content \o <<"\n", "\n">> \o un[Len(un)].content

\* the last chunk of un is below min_tokens
LastIsTiny(un) ==
    /\ Len(un) >= 2
    /\ estimate_tokens(un[Len(un)].content) < budget.min_tokens

\* the condition under which C24 says that the post-pass merges the chunks un
MergeDue(un) ==
    LastIsTiny(un) /\ 2 * estimate_tokens(MergedText(un)) <= 3 * budget.max_tokens

\* C24: the post-pass merges the last chunk into the one before it iff there
\* are two chunks, the last is below min_tokens and the merged text is within
\* 1.5 * max_tokens; a merge removes one chunk, leaves the others, and the merged
\* chunk holds the two contents in order (joined by a blank line), a re-estimated
\* token_count and the page_end of the last chunk; otherwise nothing changes.
C24_TrailingMerge ==
    pc = "chunked" =>
        LET un == Unmerged
            last == un[Len(un)]
            prev == un[Len(un) - 1]
            text == MergedText(un)
            tokens == estimate_tokens(text)
            merged == chunks[Len(chunks)]
        IN  IF LastIsTiny(un) /\ 2 * tokens <= 3 * budget.max_tokens
            THEN /\ Len(chunks) = Len(un) - 1
                 /\ \A i \in 1..(Len(chunks) - 1) : chunks[i] = un[i]
                 /\ merged.content = text
                 /\ merged.token_count = tokens
                 /\ merged.page_end = last.page_end
                 /\ merged.page_start = prev.page_start
                 /\ merged.chunk_index = prev.chunk_index
            ELSE chunks = un

\* a merge whose merged chunk has more tokens than the chunk it was merged into
\* and ends on a later page
C24_Witness ==
    /\ pc = "chunked"
    /\ LET un == Unmerged
       IN  /\ MergeDue(un)
           /\ chunks[Len(chunks)].token_count > un[Len(un) - 1].token_count
           /\ chunks[Len(chunks)].page_end > un[Len(un) - 1].page_end

-----------------------------------------------------------------------------
(* Properties of the table flag, checked under TableSpec *)

\* the lines of the content of chunk i
LinesOf(i) == SplitLines(chunks[i].content, 1, 1)

\* C25, for the chunks of two or more lines: is_table is true iff more than
\* half of the lines of the chunk's final content contain a tab, a pipe or two
\* runs of three or more spaces; also for the chunk made by the trailing merge.
C25_IsTable ==
    pc = "chunked" =>
        \A i \in 1..Len(chunks) :
            Len(LinesOf(i)) >= 2 => (chunks[i].is_table <=> mostly_col_lines(LinesOf(i)))

-----------------------------------------------------------------------------
(* Properties of the KCIF agent, checked under KcifSpec *)

\* the findings of the run
Findings == kc_result.findings

\* C26: every finding comes from a report published inside the date window,
\* no report has two findings and every finding's score is at least 0.3; also
\* when no report of the store is inside the window.
C26_FindingsInWindow ==
    kc_result.done =>
        /\ \A n \in 1..Len(Findings) :
              /\ in_window(kc_published[Findings[n].report_id])
              /\ Findings[n].relevance_score >= 3000
        /\ \A m, n \in 1..Len(Findings) :
              Findings[m].report_id = Findings[n].report_id => m = n

-----------------------------------------------------------------------------
(* Properties of the update command, checked under UpdateSpec *)

\* the scraped reports of the last run that the catalog did not hold before it
NewlyScraped ==
    {up_run.results[i].external_id : i \in 1..Len(up_run.results)}
        \ {x.external_id : x \in {y \in up_run.before : y.source_id = KcifSource}}

\* C27: the count printed as "New reports cataloged" is the number of scraped
\* reports that were not in the catalog before the run.
C27_NewCount == up_run.done => up_run.new_count = Cardinality(NewlyScraped)

-----------------------------------------------------------------------------
(* Properties of repeated aggregate calls, checked under Spec *)

\* whether dimension_results marks the dimension of this key available
MarkedAvailable(key) ==
    \E i \in 1..Len(dimension_results) :
        KeyOf(dimension_results[i].name) = key /\ dimension_results[i].available

\* C28: after an aggregate call, a dimension is marked available in
\* dimension_results iff its signal was non-null at the most recent aggregate
\* call, also when that call found no dimension available.
C28_ResultsAgree ==
    aggregated =>
        \A key \in DimKeys : MarkedAvailable(key) <=> agg_signals[key] # None

-----------------------------------------------------------------------------
(* Properties of the statuses and the chunks table, checked under ProcSpec *)

\* the changes of processing_status that the process command may make
Allowed(a, b) ==
    \/ b = "failed"
    \/ <<a, b>> \in {<<"unprocessed", "extracted">>, <<"extracted", "chunked">>,
                     <<"chunked", "embedded">>, <<"chunked", "chunked">>}

\* the order of the statuses; failed is final
StatusRank(status) ==
    CASE status = "unprocessed" -> 0
      [] status = "extracted" -> 1
      [] status = "chunked" -> 2
      [] status = "embedded" -> 3
      [] status = "failed" -> 4

\* the status of the report of the last pass before write n of the pass
StatusBefore(n) == IF n = 1 THEN last_pass.before ELSE last_pass.writes[n - 1]

\* the status that the last pass left
StatusLeft ==
    IF last_pass.writes = <<>> THEN last_pass.before
    ELSE last_pass.writes[Len(last_pass.writes)]

\* C29: every status that a pass of process_reports writes follows the status
\* before it by one of unprocessed -> extracted, extracted -> chunked,
\* chunked -> embedded, chunked -> chunked or any -> failed, and never moves
\* backward; the stored status is the last one written; the reports handed
\* to process_reports are downloaded and neither embedded nor failed
C29_StatusTransitions ==
    /\ last_pass # NoPass =>
          /\ \A n \in 1..Len(last_pass.writes) :
                /\ Allowed(StatusBefore(n), last_pass.writes[n])
                /\ StatusRank(StatusBefore(n)) <= StatusRank(last_pass.writes[n])
          /\ rep_processing[last_pass.id] = StatusLeft
    /\ \A n \in 1..Len(batch) :
          /\ batch[n].processing_status \in {"unprocessed", "extracted", "chunked"}
          /\ rep_download[batch[n].id] = "downloaded"
          /\ (run = "running" /\ n >= batch_pos) =>
                rep_processing[batch[n].id] = batch[n].processing_status

\* a pass took a report from unprocessed to embedded
C29_Witness ==
    /\ last_pass.before = "unprocessed"
    /\ last_pass.writes = <<"extracted", "chunked", "embedded">>

\* a chunk without its embedding columns
Bare(r) == [report_id |-> r.report_id, chunk_index |-> r.chunk_index,
            content |-> r.content]

\* the last pass set the status of its report to embedded
SetEmbedded == last_pass.writes # <<>> /\ StatusLeft = "embedded"

\* the stored chunks of the report of the last pass
StoredChunks == {r \in db_chunks : r.report_id = last_pass.id}

\* C30: when a pass of process_reports has set the status of a report to
\* embedded, every stored chunk of the report has an embedding and the model
\* name of the embedder, there is one chunk for each (report_id, chunk_index),
\* and contents and indices are those stored before the embedding step
C30_EmbeddedChunks ==
    SetEmbedded =>
        /\ \A r \in StoredChunks :
              r.embedding # NoEmbedding /\ r.embedding_model = embedder
        /\ \A a, b \in StoredChunks : SameKey(a, b) => a = b
        /\ {Bare(r) : r \in StoredChunks} = {Bare(r) : r \in last_pass.chunked}
        /\ Cardinality(StoredChunks) = Cardinality(last_pass.chunked)

\* a report was embedded whose chunks were a new one and one left by an
\* earlier run
C30_Witness ==
    /\ SetEmbedded
    /\ last_pass.before = "unprocessed"
    /\ Cardinality(StoredChunks) = 2
    /\ \E r \in StoredChunks : r.content = "a"

====
